---------------------------- MODULE Spec2Model ----------------------------
(***************************************************************************)
(* Verification model of the Photon compiler front end:                    *)
(*   - the recursive-descent / Pratt parser   (compiler/parser)            *)
(*   - the diagnostic engine                  (compiler/diagnostics)       *)
(*   - the bump-pointer memory arena          (compiler/memory)            *)
(*                                                                         *)
(* Each component is a state machine of its own (SpecParser, SpecDiag,     *)
(* SpecArena); the variables of the other components stay at their         *)
(* initial values.                                                         *)
(***************************************************************************)
EXTENDS Integers, Sequences, FiniteSets, TLC

VARIABLES
    parser,        \* the Parser object: tokens_, position_, errors_, recursion_depth_, options_
    parse_call,    \* the last public parser method called and what it returned
    parse_calls,   \* number of public parser methods called so far
    engine,        \* the DiagnosticEngine object
    report_call,   \* the last engine method called, its argument and its return value
    accepted,      \* history: diagnostics accepted since construction / the last clear(), per level
    builders,      \* the DiagnosticBuilder objects that hold, or held, one diagnostic
    submissions,   \* history: the diagnostics the builders handed to DiagnosticEngine::report
    threads,       \* the threads reporting to one engine: their positions inside report, and the vector's memory
    arena,         \* the MemoryArena object
    arena_call,    \* the last arena method called, its arguments and its outcome
    manager,       \* the SourceManager object
    manager_call,  \* the last manager method called, its outcome and the greatest FileID handed out before it
    file,          \* a SourceFile object: content_ and line_offsets_
    file_call,     \* the last SourceFile method called, its arguments and what it returned
    lexer,         \* the lexer: input_, position_, line_, column_
    lex_call       \* the last lexer method called and the tokens it returned

vars == <<parser, parse_call, parse_calls, engine, report_call, accepted,
          builders, submissions, threads, arena, arena_call,
          manager, manager_call, file, file_call, lexer, lex_call>>

parserVars == <<parser, parse_call, parse_calls>>
builderVars == <<builders, submissions>>
threadVars == <<threads>>
clientVars == <<builderVars, threadVars>>
diagVars   == <<engine, report_call, accepted, clientVars>>
managerVars == <<manager, manager_call>>
fileVars == <<file, file_call>>
lexerVars == <<lexer, lex_call>>
restVars == <<managerVars, fileVars, lexerVars>>
arenaVars  == <<arena, arena_call>>

(***************************************************************************)
(*                               TOKENS                                    *)
(***************************************************************************)

\* A token: its TokenType, its text and the tag of its TokenValue payload.
Tok(type) == [type |-> type, text |-> "", tag |-> "none"]
IntTok(text) == [type |-> "IntegerLiteral", text |-> text, tag |-> "i64"]
IdTok(text) == [type |-> "Identifier", text |-> text, tag |-> "str"]
StrTok(text) == [type |-> "StringLiteral", text |-> text, tag |-> "str"]

\* TokenStream::eof_token
eof_token == Tok("Eof")

\* TokenStream::current
current(P) ==
    IF P.position_ < Len(P.tokens_) THEN P.tokens_[P.position_ + 1] ELSE eof_token

\* TokenStream::is_eof
is_eof(P) == P.position_ >= Len(P.tokens_) \/ current(P).type = "Eof"

\* TokenStream::advance
advance(P) ==
    IF P.position_ < Len(P.tokens_) THEN [P EXCEPT !.position_ = @ + 1] ELSE P

(***************************************************************************)
(*                                 AST                                     *)
(***************************************************************************)

\* Every AST node is [kind, text, kids]; source ranges are not modelled.
Node(kind, text, kids) == [kind |-> kind, text |-> text, kids |-> kids]

NoNode == Node("nullptr", "", <<>>)

IntegerLiteral(text) == Node("IntegerLiteral", text, <<>>)
Identifier(text)     == Node("Identifier", text, <<>>)
BinaryExpr(l, op, r) == Node("BinaryExpr", op, <<l, r>>)
UnaryExpr(op, e)     == Node("UnaryExpr", op, <<e>>)
\* CallExpr: kids[1] is the callee, the rest are the arguments in order
CallExpr(callee, args) == Node("CallExpr", "", <<callee>> \o args)
Block(stmts)         == Node("Block", "", stmts)
\* FunctionDecl::Parameter {name, type}
Parameter(name, type) == Node("Parameter", name, <<type>>)
\* VarDecl {name, type_annotation, initializer, is_mutable}
VarDecl(name, type, init, is_mutable) ==
    Node("VarDecl", name, <<type, init, Node(IF is_mutable THEN "mut" ELSE "const", "", <<>>)>>)
\* FunctionDecl {name, parameters, return_type, body}
FunctionDecl(name, params, ret, body) ==
    Node("FunctionDecl", name, <<Node("Parameters", "", params), ret, body>>)
Program(decls) == Node("Program", "", decls)

(***************************************************************************)
(*                       PARSER: results and utilities                     *)
(***************************************************************************)

\* Result<T, ParseError> together with the parser state the call leaves.
\* diverges marks a call that never returns (see parse_declarations).
Ok(P, v)  == [ok |-> TRUE,  error |-> "", value |-> v, P |-> P, diverges |-> FALSE]
Err(P, e) == [ok |-> FALSE, error |-> e,  value |-> NoNode, P |-> P, diverges |-> FALSE]
Diverge(P) == [ok |-> FALSE, error |-> "", value |-> NoNode, P |-> P, diverges |-> TRUE]

\* Parser::report_error
report_error(P, e) == [P EXCEPT !.errors_ = Append(@, e)]

\* Parser::consume
consume(P, expected) ==
    IF current(P).type # expected
    THEN Err(report_error(P, "UnexpectedToken"), "UnexpectedToken")
    ELSE Ok(advance(P), current(P))

\* Parser::is_synchronization_point
is_synchronization_point(P) ==
    current(P).type \in {"KwFn", "KwStruct", "KwEnum", "KwTrait", "KwImpl", "KwLet",
                         "KwConst", "LeftBrace", "RightBrace", "Semicolon"}

\* Parser::synchronize
RECURSIVE synchronize(_)
synchronize(P) ==
    IF ~is_eof(P) /\ ~is_synchronization_point(P) THEN synchronize(advance(P)) ELSE P

\* Parser::recover
recover(P, strategy) ==
    CASE strategy = "Skip" -> IF ~is_eof(P) THEN advance(P) ELSE P
      [] strategy = "Synchronize" -> synchronize(P)
      [] OTHER -> P

\* enter_recursion with the limit tested after the increment it guards
enter_recursion_past_limit(P) ==
    IF P.recursion_depth_ > P.options_.max_recursion_depth
    THEN Err(P, "NestedTooDeep")
    ELSE Ok([P EXCEPT !.recursion_depth_ = @ + 1], NoNode)

\* Parser::enter_recursion
enter_recursion(P) ==
    IF P.recursion_depth_ >= P.options_.max_recursion_depth
    THEN Err(P, "NestedTooDeep")
    ELSE Ok([P EXCEPT !.recursion_depth_ = @ + 1], NoNode)

\* Parser::exit_recursion
exit_recursion(P) ==
    IF P.recursion_depth_ > 0 THEN [P EXCEPT !.recursion_depth_ = @ - 1] ELSE P

\* A failed result handed on to the caller: the error (or divergence) is kept,
\* the parser state is the one the failed call left.
Fail(r) == [r EXCEPT !.value = NoNode]
\* The same after exit_recursion()
FailExit(r) == [r EXCEPT !.value = NoNode, !.P = exit_recursion(r.P)]

(***************************************************************************)
(*                     PARSER: precedence and operators                    *)
(***************************************************************************)

\* enum class Precedence
Precedence ==
    [None |-> 0, Assignment |-> 10, Range |-> 20, LogicalOr |-> 30, LogicalAnd |-> 40,
     Equality |-> 50, Comparison |-> 60, BitwiseOr |-> 70, BitwiseXor |-> 80,
     BitwiseAnd |-> 90, Shift |-> 100, Addition |-> 110, Multiplication |-> 120,
     Power |-> 130, Unary |-> 140, Postfix |-> 150, Primary |-> 160]

AssignTokens ==
    {"Assign", "PlusAssign", "MinusAssign", "StarAssign", "SlashAssign", "PercentAssign",
     "AndAssign", "OrAssign", "XorAssign", "LeftShiftAssign", "RightShiftAssign"}

\* Parser::get_precedence
get_precedence(type) ==
    CASE type \in AssignTokens -> Precedence.Assignment
      [] type \in {"DotDot", "DotDotEqual"} -> Precedence.Range
      [] type = "Or" -> Precedence.LogicalOr
      [] type = "And" -> Precedence.LogicalAnd
      [] type \in {"Equal", "NotEqual", "Spaceship"} -> Precedence.Equality
      [] type \in {"Less", "Greater", "LessEqual", "GreaterEqual"} -> Precedence.Comparison
      [] type = "Pipe" -> Precedence.BitwiseOr
      [] type = "Caret" -> Precedence.BitwiseXor
      [] type = "Ampersand" -> Precedence.BitwiseAnd
      [] type \in {"LeftShift", "RightShift"} -> Precedence.Shift
      [] type \in {"Plus", "Minus"} -> Precedence.Addition
      [] type \in {"Star", "Slash", "Percent"} -> Precedence.Multiplication
      [] type = "StarStar" -> Precedence.Power
      [] OTHER -> Precedence.None

\* Parser::is_right_associative
is_right_associative(type) == type \in AssignTokens \cup {"StarStar"}

\* Parser::token_to_binary_op: the BinaryExpr::Operator of a token, "" when the
\* switch falls to its default (ParseError::ExpectedOperator)
token_to_binary_op(type) ==
    CASE type = "Plus" -> "Add"
      [] type = "Minus" -> "Sub"
      [] type = "Star" -> "Mul"
      [] type = "Slash" -> "Div"
      [] type = "Percent" -> "Mod"
      [] type = "StarStar" -> "Pow"
      [] type = "Equal" -> "Equal"
      [] type = "NotEqual" -> "NotEqual"
      [] type = "Less" -> "Less"
      [] type = "Greater" -> "Greater"
      [] type = "LessEqual" -> "LessEqual"
      [] type = "GreaterEqual" -> "GreaterEqual"
      [] type = "Spaceship" -> "Spaceship"
      [] type = "And" -> "LogicalAnd"
      [] type = "Or" -> "LogicalOr"
      [] type = "Ampersand" -> "BitwiseAnd"
      [] type = "Pipe" -> "BitwiseOr"
      [] type = "Caret" -> "BitwiseXor"
      [] type = "LeftShift" -> "LeftShift"
      [] type = "RightShift" -> "RightShift"
      [] type = "Assign" -> "Assign"
      [] type = "DotDot" -> "Range"
      [] type = "DotDotEqual" -> "RangeInclusive"
      [] OTHER -> ""

\* Parser::token_to_unary_op
token_to_unary_op(type) ==
    CASE type = "Plus" -> "Plus"
      [] type = "Minus" -> "Minus"
      [] type = "Not" -> "Not"
      [] type = "Tilde" -> "BitwiseNot"
      [] type = "Star" -> "Dereference"
      [] type = "Ampersand" -> "AddressOf"
      [] OTHER -> ""

(***************************************************************************)
(*                         PARSER: expressions                             *)
(***************************************************************************)

\* `auto r = <call>;` followed by the rest of the function, which reads r
Bind(r, rest(_)) == rest(r)

\* `auto r = <call>; if (!r) return Err(r.error());` followed by the rest
Try(r, rest(_)) == IF ~r.ok THEN Fail(r) ELSE rest(r)

\* Parser::parse_literal
parse_literal(P) ==
    LET token == current(P)
        Q == advance(P)
        bad == Err(report_error(Q, "InvalidLiteral"), "InvalidLiteral")
    IN  CASE token.type = "IntegerLiteral" ->
                IF token.tag # "i64" THEN bad ELSE Ok(Q, Node("IntegerLiteral", token.text, <<>>))
          [] token.type = "FloatLiteral" ->
                IF token.tag # "f64" THEN bad ELSE Ok(Q, Node("FloatLiteral", token.text, <<>>))
          [] token.type = "StringLiteral" ->
                IF token.tag # "str" THEN bad ELSE Ok(Q, Node("StringLiteral", token.text, <<>>))
          [] token.type = "BoolLiteral" ->
                IF token.tag # "bool" THEN bad ELSE Ok(Q, Node("BoolLiteral", token.text, <<>>))
          [] OTHER -> bad

\* Parser::parse_identifier
parse_identifier(P) ==
    IF current(P).type # "Identifier"
    THEN Err(report_error(P, "ExpectedIdentifier"), "ExpectedIdentifier")
    ELSE Ok(advance(P), Identifier(current(P).text))

\* Parser::parse_type
parse_type(P) == Try(parse_identifier(P), LAMBDA id_result : id_result)

RECURSIVE parse_expr(_, _)
RECURSIVE parse_expr_loop(_, _, _)
RECURSIVE parse_primary(_)
RECURSIVE parse_postfix(_, _)
RECURSIVE parse_call_expr(_, _)
RECURSIVE parse_call_arguments_loop(_, _)

\* Parser::parse_call_arguments, the while loop with `arguments` collected so far
parse_call_arguments_loop(P, arguments) ==
    IF current(P).type # "RightParen" /\ ~is_eof(P)
    THEN Try(parse_expr(P, 0), LAMBDA arg_result :
             IF current(arg_result.P).type = "Comma"
             THEN parse_call_arguments_loop(advance(arg_result.P),
                                            Append(arguments, arg_result.value))
             ELSE IF current(arg_result.P).type # "RightParen"
             THEN Err(report_error(arg_result.P, "MissingDelimiter"), "MissingDelimiter")
             ELSE parse_call_arguments_loop(arg_result.P,
                                            Append(arguments, arg_result.value)))
    ELSE Try(consume(P, "RightParen"), LAMBDA right_paren_result :
             Ok(right_paren_result.P, arguments))

\* Parser::parse_call_arguments
parse_call_arguments(P) ==
    Try(consume(P, "LeftParen"), LAMBDA left_paren_result :
        parse_call_arguments_loop(left_paren_result.P, <<>>))

\* Parser::parse_call_expr
parse_call_expr(P, callee) ==
    Try(parse_call_arguments(P), LAMBDA args_result :
        Ok(args_result.P, CallExpr(callee, args_result.value)))

\* Parser::parse_postfix
parse_postfix(P, left) ==
    IF ~is_eof(P) /\ current(P).type = "LeftParen"
    THEN Try(parse_call_expr(P, left), LAMBDA call_result :
             parse_postfix(call_result.P, call_result.value))
    ELSE Ok(P, left)

\* Parser::parse_primary
parse_primary(P) ==
    LET type == current(P).type
    IN  CASE type \in {"IntegerLiteral", "FloatLiteral", "StringLiteral", "BoolLiteral"} ->
                parse_literal(P)
          [] type = "Identifier" ->
                Try(parse_identifier(P), LAMBDA id_result : id_result)
          [] type = "LeftParen" ->
                Bind(parse_expr(advance(P), 0), LAMBDA expr_result :
                     IF ~expr_result.ok THEN expr_result
                     ELSE Try(consume(expr_result.P, "RightParen"),
                              LAMBDA right_paren_result :
                                  Ok(right_paren_result.P, expr_result.value)))
          [] type \in {"Plus", "Minus", "Not", "Tilde", "Ampersand", "Star"} ->
                IF token_to_unary_op(type) = "" THEN Err(advance(P), "ExpectedOperator")
                ELSE Bind(parse_expr(advance(P), Precedence.Unary), LAMBDA operand_result :
                          IF ~operand_result.ok THEN operand_result
                          ELSE Ok(operand_result.P,
                                  UnaryExpr(token_to_unary_op(type), operand_result.value)))
          [] OTHER ->
                Err(report_error(P, "ExpectedExpression"), "ExpectedExpression")

\* The next_min_precedence parse_expr hands to the right operand of op_type
next_min_precedence(op_type) ==
    IF is_right_associative(op_type) THEN get_precedence(op_type)
    ELSE get_precedence(op_type) + 1

\* Whether the operator loop of parse_expr stops at the current token
loop_breaks(current_precedence, min_precedence) == current_precedence < min_precedence

\* Parser::parse_expr, the operator loop with `left` built so far, then
\* parse_postfix and exit_recursion
parse_expr_loop(P, left, min_precedence) ==
    IF ~is_eof(P) /\ ~loop_breaks(get_precedence(current(P).type), min_precedence)
    THEN Bind(parse_expr(advance(P), next_min_precedence(current(P).type)),
              LAMBDA right_result :
                  IF ~right_result.ok THEN FailExit(right_result)
                  ELSE IF token_to_binary_op(current(P).type) = ""
                  THEN Err(exit_recursion(right_result.P), "ExpectedOperator")
                  ELSE parse_expr_loop(right_result.P,
                                       BinaryExpr(left, token_to_binary_op(current(P).type),
                                                  right_result.value),
                                       min_precedence))
    ELSE Bind(parse_postfix(P, left), LAMBDA postfix_result :
              [postfix_result EXCEPT !.P = exit_recursion(@)])

\* Parser::parse_expr
parse_expr(P, min_precedence) ==
    Try(enter_recursion(P), LAMBDA recursion_guard :
        Bind(parse_primary(recursion_guard.P), LAMBDA left_result :
             IF ~left_result.ok THEN FailExit(left_result)
             ELSE parse_expr_loop(left_result.P, left_result.value, min_precedence)))

(***************************************************************************)
(*                  PARSER: statements and declarations                    *)
(***************************************************************************)

\* Parser::parse_var_decl
parse_var_decl(P) ==
    Try(consume(P, "KwLet"), LAMBDA let_result :
    Bind(current(let_result.P).type = "KwMut", LAMBDA is_mutable :
    Try(parse_identifier(IF is_mutable THEN advance(let_result.P) ELSE let_result.P),
        LAMBDA name_result :
    Try(IF current(name_result.P).type = "Colon"
        THEN parse_type(advance(name_result.P)) ELSE Ok(name_result.P, NoNode),
        LAMBDA type_result :
    Try(IF current(type_result.P).type = "Assign"
        THEN parse_expr(advance(type_result.P), 0) ELSE Ok(type_result.P, NoNode),
        LAMBDA init_result :
    Ok(init_result.P,
       VarDecl(name_result.value.text, type_result.value, init_result.value,
               is_mutable)))))))

\* One pass through a recovery loop ended in `continue` at parser state Q, having
\* started at P: when the token position and the recursion depth are those of P,
\* the next pass repeats this one (only errors_ grows), so the loop never ends.
no_progress(P, Q) ==
    Q.position_ = P.position_ /\ Q.recursion_depth_ = P.recursion_depth_

RECURSIVE parse_statement_list(_, _)
\* Parser::parse_statement_list, the while loop with `statements` collected so far
parse_statement_list(P, statements) ==
    IF current(P).type # "RightBrace" /\ ~is_eof(P)
    THEN IF current(P).type = "KwLet"
         THEN Bind(parse_var_decl(P), LAMBDA var_result :
                  IF ~var_result.ok
                  THEN IF P.options_.enable_error_recovery
                       THEN Bind(recover(var_result.P, "Synchronize"), LAMBDA Q :
                                 IF no_progress(P, Q) THEN Diverge(Q)
                                 ELSE parse_statement_list(Q, statements))
                       ELSE Fail(var_result)
                  ELSE parse_statement_list(var_result.P,
                                            Append(statements, var_result.value)))
         ELSE IF current(P).type \in {"Newline", "Semicolon"}
         THEN parse_statement_list(advance(P), statements)
         ELSE Bind(parse_expr(P, 0), LAMBDA expr_result :
                  IF ~expr_result.ok
                  THEN IF P.options_.enable_error_recovery
                       THEN Bind(recover(expr_result.P, "Synchronize"), LAMBDA Q :
                                 IF no_progress(P, Q) THEN Diverge(Q)
                                 ELSE parse_statement_list(Q, statements))
                       ELSE Fail(expr_result)
                  ELSE \* the parsed expression is not added to `statements`
                       IF current(expr_result.P).type = "Semicolon"
                       THEN parse_statement_list(advance(expr_result.P), statements)
                       ELSE parse_statement_list(expr_result.P, statements))
    ELSE Ok(P, statements)

\* Parser::parse_block
parse_block(P) ==
    Try(consume(P, "LeftBrace"), LAMBDA left_brace_result :
    Try(parse_statement_list(left_brace_result.P, <<>>), LAMBDA statements_result :
    Try(consume(statements_result.P, "RightBrace"), LAMBDA right_brace_result :
    Ok(right_brace_result.P, Block(statements_result.value)))))

\* Parser::parse_parameter
parse_parameter(P) ==
    Try(parse_identifier(P), LAMBDA name_result :
    Try(consume(name_result.P, "Colon"), LAMBDA colon_result :
    Try(parse_type(colon_result.P), LAMBDA type_result :
    Ok(type_result.P, Parameter(name_result.value.text, type_result.value)))))

RECURSIVE parse_function_parameters_loop(_, _)
\* Parser::parse_function_parameters, the while loop with `parameters` collected so far
parse_function_parameters_loop(P, parameters) ==
    IF current(P).type # "RightParen" /\ ~is_eof(P)
    THEN Try(parse_parameter(P), LAMBDA param_result :
             IF current(param_result.P).type = "Comma"
             THEN parse_function_parameters_loop(advance(param_result.P),
                                                 Append(parameters, param_result.value))
             ELSE IF current(param_result.P).type # "RightParen"
             THEN Err(report_error(param_result.P, "MissingDelimiter"), "MissingDelimiter")
             ELSE parse_function_parameters_loop(param_result.P,
                                                 Append(parameters, param_result.value)))
    ELSE Try(consume(P, "RightParen"), LAMBDA right_paren_result :
             Ok(right_paren_result.P, parameters))

\* Parser::parse_function_parameters
parse_function_parameters(P) ==
    Try(consume(P, "LeftParen"), LAMBDA left_paren_result :
        parse_function_parameters_loop(left_paren_result.P, <<>>))

\* Parser::parse_function_decl
parse_function_decl(P) ==
    Try(consume(P, "KwFn"), LAMBDA fn_token_result :
    Try(parse_identifier(fn_token_result.P), LAMBDA name_result :
    Try(parse_function_parameters(name_result.P), LAMBDA params_result :
    Try(IF current(params_result.P).type = "Arrow"
        THEN parse_type(advance(params_result.P)) ELSE Ok(params_result.P, NoNode),
        LAMBDA type_result :
    Try(parse_block(type_result.P), LAMBDA body_result :
    Ok(body_result.P,
       FunctionDecl(name_result.value.text, params_result.value, type_result.value,
                    body_result.value)))))))

\* Parser::parse_declaration
parse_declaration(P) ==
    IF current(P).type = "KwFn"
    THEN Try(parse_function_decl(P), LAMBDA func_result : func_result)
    ELSE Err(report_error(P, "ExpectedDeclaration"), "ExpectedDeclaration")

RECURSIVE parse_declarations(_, _)
\* Parser::parse_declarations, the while loop with `declarations` collected so far.
\* A call that never returns is reported as a result with diverges = TRUE.
parse_declarations(P, declarations) ==
    IF ~is_eof(P) /\ current(P).type # "RightBrace"
    THEN Bind(parse_declaration(P), LAMBDA decl_result :
             IF decl_result.diverges THEN decl_result
             ELSE IF ~decl_result.ok
             THEN IF P.options_.enable_error_recovery
                  THEN Bind(recover(decl_result.P, "Synchronize"), LAMBDA Q :
                            IF no_progress(P, Q) THEN Diverge(Q)
                            ELSE parse_declarations(Q, declarations))
                  ELSE Fail(decl_result)
             ELSE parse_declarations(decl_result.P,
                                     Append(declarations, decl_result.value)))
    ELSE Ok(P, declarations)

\* Parser::parse_program
parse_program(P) ==
    Try(parse_declarations(P, <<>>), LAMBDA declarations_result :
        Ok(declarations_result.P, Program(declarations_result.value)))

\* Parser::parse_expression
parse_expression(P) == parse_expr(P, 0)

\* Parser::parse_statement
parse_statement(P) ==
    IF current(P).type = "LeftBrace"
    THEN Try(parse_block(P), LAMBDA block_result : block_result)
    ELSE IF current(P).type = "KwLet"
    THEN Try(parse_var_decl(P), LAMBDA var_result : var_result)
    ELSE Err(report_error(P, "ExpectedStatement"), "ExpectedStatement")

\* Parser::Parser
NewParser(tokens, options) ==
    [tokens_ |-> tokens, position_ |-> 0, options_ |-> options,
     recursion_depth_ |-> 0, errors_ |-> <<>>]

(***************************************************************************)
(*                     PARSER: inputs and state machine                    *)
(***************************************************************************)

\* Bounds of the parser model
MaxJunkLen == 3        \* tokens of a malformed declaration in front of a good one
MaxArgs == 2           \* arguments of a call / parameters of a function
MaxSmallLen == 3       \* length of the exhaustively enumerated token streams
SmallRecursionDepth == 3   \* a small ParserOptions::max_recursion_depth
MaxParseCalls == 2     \* public parser methods called on one Parser

\* ParserOptions::max_recursion_depth, the default
DefaultRecursionDepth == 1000

SeqsUpTo(S, n) == UNION {[1..k -> S] : k \in 0..n}

\* Every token the precedence table gives a precedence above None
BinaryOpTokens ==
    AssignTokens \cup
    {"DotDot", "DotDotEqual", "Or", "And", "Equal", "NotEqual", "Spaceship", "Less",
     "Greater", "LessEqual", "GreaterEqual", "Pipe", "Caret", "Ampersand", "LeftShift",
     "RightShift", "Plus", "Minus", "Star", "Slash", "Percent", "StarStar"}

\* `1 o1 2 o2 3`
PrattInput(o1, o2) ==
    <<IntTok("1"), Tok(o1), IntTok("2"), Tok(o2), IntTok("3"), eof_token>>
PrattInputs == {PrattInput(o1, o2) : o1 \in BinaryOpTokens, o2 \in BinaryOpTokens}

\* `fn add(a: ty, b: ty) -> ty { body }`
FnAddInput(ty, body) ==
    <<Tok("KwFn"), IdTok("add"), Tok("LeftParen"),
      IdTok("a"), Tok("Colon"), ty, Tok("Comma"),
      IdTok("b"), Tok("Colon"), ty, Tok("RightParen"),
      Tok("Arrow"), ty, Tok("LeftBrace")>> \o body \o <<Tok("RightBrace"), eof_token>>
TypeTokens == {Tok("KwI32"), Tok("KwBool"), IdTok("T")}
AddBodies ==
    {<<>>, <<IdTok("a"), Tok("Plus"), IdTok("b")>>,
     <<IdTok("a"), Tok("Plus"), IdTok("b"), Tok("Semicolon")>>}
FnAddInputs == {FnAddInput(ty, body) : ty \in TypeTokens, body \in AddBodies}

\* `fn g() {}` and junk in front of it
GoodFn ==
    <<Tok("KwFn"), IdTok("g"), Tok("LeftParen"), Tok("RightParen"),
      Tok("LeftBrace"), Tok("RightBrace")>>
GoodFnDecl == FunctionDecl("g", <<>>, NoNode, Block(<<>>))
JunkTokens ==
    {Tok("KwFn"), IdTok("x"), Tok("LeftParen"), Tok("Colon"), Tok("Semicolon"),
     Tok("RightBrace"), Tok("LeftBrace"), Tok("KwLet"), IntTok("1")}
Junk == SeqsUpTo(JunkTokens, MaxJunkLen) \ {<<>>}
RecoveryInputs == {junk \o GoodFn \o <<eof_token>> : junk \in Junk}

\* items separated by commas
RECURSIVE CommaSeparated(_)
CommaSeparated(items) ==
    IF Len(items) = 0 THEN <<>>
    ELSE IF Len(items) = 1 THEN items[1]
    ELSE items[1] \o <<Tok("Comma")>> \o CommaSeparated(Tail(items))

\* `prefix f(a1, ..., an)` and, with trailing, `prefix f(a1, ..., an,)`
ArgTokens == {IntTok("1"), IdTok("a"), StrTok("hello")}
CallPrefixes == {<<>>, <<Tok("Minus")>>, <<IntTok("2"), Tok("Plus")>>}
CallInput(prefix, args, trailing) ==
    prefix \o <<IdTok("f"), Tok("LeftParen")>> \o
    CommaSeparated([i \in 1..Len(args) |-> <<args[i]>>]) \o
    (IF trailing THEN <<Tok("Comma")>> ELSE <<>>) \o <<Tok("RightParen"), eof_token>>
CallInputs(trailing) ==
    {CallInput(prefix, args, trailing) :
        prefix \in CallPrefixes,
        args \in SeqsUpTo(ArgTokens, MaxArgs) \ (IF trailing THEN {<<>>} ELSE {})}

\* `fn f(p1: T, ..., pn: T) {}` and, with trailing, `fn f(p1: T, ..., pn: T,) {}`
ParamNames == <<"a", "b", "c", "d", "e">>
ParamInput(n, trailing) ==
    <<Tok("KwFn"), IdTok("f"), Tok("LeftParen")>> \o
    CommaSeparated([i \in 1..n |-> <<IdTok(ParamNames[i]), Tok("Colon"), IdTok("T")>>]) \o
    (IF trailing THEN <<Tok("Comma")>> ELSE <<>>) \o
    <<Tok("RightParen"), Tok("LeftBrace"), Tok("RightBrace"), eof_token>>
ParamInputs(trailing) ==
    {ParamInput(n, trailing) : n \in (IF trailing THEN 1 ELSE 0)..MaxArgs}

\* every short token stream over a small alphabet
SmallTokens ==
    {IntTok("1"), IdTok("f"), Tok("LeftParen"), Tok("RightParen"), Tok("Plus"),
     Tok("KwLet"), Tok("Assign"), Tok("LeftBrace"), Tok("RightBrace")}
SmallInputs == {body \o <<eof_token>> : body \in SeqsUpTo(SmallTokens, MaxSmallLen)}

\* every short token stream over the tokens that nest expressions: parentheses,
\* a unary and binary operator, a call and its argument list
MaxNestingLen == 3
NestingTokens ==
    {Tok("LeftParen"), Tok("RightParen"), IntTok("1"), Tok("Minus"), IdTok("f"),
     Tok("Comma")}
NestingInputs ==
    {body \o <<eof_token>> : body \in SeqsUpTo(NestingTokens, MaxNestingLen)}

\* The token streams the parser is run on; each ends with Eof, as the lexer's do
Inputs ==
    PrattInputs \cup FnAddInputs \cup RecoveryInputs \cup CallInputs(FALSE) \cup
    CallInputs(TRUE) \cup ParamInputs(FALSE) \cup ParamInputs(TRUE) \cup SmallInputs

OptionsSet ==
    [enable_error_recovery : BOOLEAN,
     max_recursion_depth : {SmallRecursionDepth, DefaultRecursionDepth}]

NoCall(P) ==
    [method |-> "none", ok |-> FALSE, error |-> "", value |-> NoNode,
     diverges |-> FALSE, before |-> P]

\* What a public method, started in parser state P, returned as r
Returned(method, P, r) ==
    [method |-> method, ok |-> r.ok, error |-> r.error, value |-> r.value,
     diverges |-> r.diverges, before |-> P]

\* A parser over a stream of nested expressions
NestingInit ==
    /\ \E tokens \in NestingInputs, options \in OptionsSet :
          /\ parser = NewParser(tokens, options)
          /\ parse_call = NoCall(NewParser(tokens, options))
    /\ parse_calls = 0

ParserInit ==
    /\ \E tokens \in Inputs, options \in OptionsSet :
          /\ parser = NewParser(tokens, options)
          /\ parse_call = NoCall(NewParser(tokens, options))
    /\ parse_calls = 0

\* A public method can be called while no earlier call is still running
CanCall == parse_calls < MaxParseCalls /\ ~parse_call.diverges

ParseProgram ==
    /\ CanCall
    /\ LET r == parse_program(parser)
       IN  /\ parser' = r.P
           /\ parse_call' = Returned("parse_program", parser, r)
    /\ parse_calls' = parse_calls + 1
    /\ UNCHANGED <<diagVars, arenaVars, restVars>>

ParseExpression ==
    /\ CanCall
    /\ LET r == parse_expression(parser)
       IN  /\ parser' = r.P
           /\ parse_call' = Returned("parse_expression", parser, r)
    /\ parse_calls' = parse_calls + 1
    /\ UNCHANGED <<diagVars, arenaVars, restVars>>

ParseStatement ==
    /\ CanCall
    /\ LET r == parse_statement(parser)
       IN  /\ parser' = r.P
           /\ parse_call' = Returned("parse_statement", parser, r)
    /\ parse_calls' = parse_calls + 1
    /\ UNCHANGED <<diagVars, arenaVars, restVars>>

\* Parser::clear_errors
ClearErrors ==
    /\ ~parse_call.diverges
    /\ parser.errors_ # <<>>
    /\ parser' = [parser EXCEPT !.errors_ = <<>>]
    /\ UNCHANGED <<parse_call, parse_calls, diagVars, arenaVars, restVars>>

ParserNext == ParseProgram \/ ParseExpression \/ ParseStatement \/ ClearErrors

(***************************************************************************)
(*                             MEMORY ARENA                                *)
(***************************************************************************)

\* Bounds of the arena model
BlockSize == 4             \* the template parameter BlockSize, scaled down
AlignShift == 1            \* log2 of the template parameter Alignment, scaled down
PtrBits == 6               \* width of uintptr_t and usize, scaled down
NumSlots == 2              \* places the system allocator can put a Block
MaxCount == 2              \* largest count passed to allocate<T>(count)
MaxTotalAllocated == 3     \* calls are made while total_allocated_ is below this

RECURSIVE Pow2(_)
Pow2(n) == IF n = 0 THEN 1 ELSE 2 * Pow2(n - 1)

\* The template parameter Alignment: the alignment of Block::data, a power of two
Alignment == Pow2(AlignShift)

\* Addresses the system allocator hands out for a Block: multiples of
\* Alignment, far enough apart for Block::data and Block::next
SlotStride == Alignment * (((BlockSize + Alignment - 1) \div Alignment) + 1)
Slots == {k * SlotStride : k \in 1..NumSlots}

\* The number of addresses; uintptr_t and usize are the integers below it
AddressSpace == Pow2(PtrBits)

\* a mod 2^PtrBits: arithmetic in uintptr_t / usize
Wrap(a) == a % AddressSpace

\* a - 1 in usize
Decrement(a) == Wrap(a + AddressSpace - 1)

\* a & b
RECURSIVE BitAnd(_, _)
BitAnd(a, b) ==
    IF a = 0 \/ b = 0 THEN 0
    ELSE (a % 2) * (b % 2) + 2 * BitAnd(a \div 2, b \div 2)

\* ~a
BitNot(a) == AddressSpace - 1 - a

\* MemoryArena::MemoryArena. blocks is the chain first_block_, first_block_->next, ...
\* (the address of each Block::data); current_block_ is an index into it, 0 for nullptr.
NewArena ==
    [blocks |-> <<>>, current_block_ |-> 0, current_pos_ |-> 0, block_end_ |-> 0,
     total_allocated_ |-> 0, bytes_used_ |-> 0, block_count_ |-> 0]

\* MemoryArena::align_pointer
align_pointer(ptr, alignment) ==
    BitAnd(Wrap(ptr + Decrement(alignment)), BitNot(Decrement(alignment)))

\* The power-of-two test of allocate: (alignment & (alignment - 1)) != 0
alignment_rejected(alignment) ==
    BitAnd(alignment, Decrement(alignment)) # 0

\* MemoryArena::allocate_new_block, the new Block placed at address base
allocate_new_block(A, base) ==
    [A EXCEPT !.blocks = IF A.blocks = <<>> THEN <<base>>
                         ELSE SubSeq(A.blocks, 1, A.current_block_) \o <<base>>,
              !.current_block_ = IF A.blocks = <<>> THEN 1 ELSE A.current_block_ + 1,
              !.current_pos_ = base,
              !.block_end_ = base + BlockSize,
              !.block_count_ = @ + 1]

Allocated(A, ptr) == [ok |-> TRUE, error |-> "", ptr |-> ptr, A |-> A]
Thrown(A, e)      == [ok |-> FALSE, error |-> e, ptr |-> 0, A |-> A]

\* allocate, from "Align current position" on, in an arena with a current block
\* and the system allocator's answers `fresh` for the blocks it may still ask
\* for (0: std::bad_alloc from make_unique)
allocate_in_block(A, size, alignment, fresh) ==
    LET aligned_pos == align_pointer(A.current_pos_, alignment)
        allocation_end == aligned_pos + size
        commit(B, pos) ==
            Allocated([B EXCEPT !.current_pos_ = pos + size,
                                !.bytes_used_ = @ + size,
                                !.total_allocated_ = @ + size], pos)
    IN  IF allocation_end > A.block_end_
        THEN IF fresh[1] = 0 THEN Thrown(A, "bad_alloc")
             ELSE LET B == allocate_new_block(A, fresh[1])
                      pos == align_pointer(B.current_pos_, alignment)
                  IN  IF pos + size > B.block_end_ THEN Thrown(B, "bad_alloc")
                      ELSE commit(B, pos)
        ELSE commit(A, aligned_pos)

\* MemoryArena::allocate(size, alignment)
allocate(A, size, alignment, fresh) ==
    IF size = 0 THEN Thrown(A, "invalid_argument")
    ELSE IF size > BlockSize THEN Thrown(A, "invalid_argument")
    ELSE IF alignment_rejected(alignment) THEN Thrown(A, "invalid_argument")
    ELSE IF A.current_block_ = 0
    THEN IF fresh[1] = 0 THEN Thrown(A, "bad_alloc")
         ELSE allocate_in_block(allocate_new_block(A, fresh[1]), size, alignment, Tail(fresh))
    ELSE allocate_in_block(A, size, alignment, fresh)

\* MemoryArena::allocate<T>(count), T given by sizeof(T) and alignof(T)
allocate_T(A, T, count, fresh) ==
    IF count = 0 THEN Thrown(A, "invalid_argument")
    ELSE IF count > BlockSize \div T.size THEN Thrown(A, "invalid_argument")
    ELSE allocate(A, count * T.size, T.align, fresh)

\* MemoryArena::emplace<T>(args...); ctor_throws: T's constructor throws
emplace(A, T, ctor_throws, fresh) ==
    LET r == allocate_T(A, T, 1, fresh)
    IN  IF r.ok /\ ctor_throws THEN Thrown(r.A, "constructor") ELSE r

\* reset that rewinds the bump pointer and leaves bytes_used_ alone
reset_keeping_bytes_used(A) ==
    IF A.blocks = <<>> THEN A
    ELSE [A EXCEPT !.blocks = <<A.blocks[1]>>,
                   !.current_block_ = 1,
                   !.current_pos_ = A.blocks[1],
                   !.block_end_ = A.blocks[1] + BlockSize,
                   !.block_count_ = 1]

\* MemoryArena::reset
reset(A) ==
    IF A.blocks = <<>> THEN A
    ELSE [A EXCEPT !.blocks = <<A.blocks[1]>>,
                   !.current_block_ = 1,
                   !.current_pos_ = A.blocks[1],
                   !.block_end_ = A.blocks[1] + BlockSize,
                   !.bytes_used_ = 0,
                   !.block_count_ = 1]

\* MemoryArena::owns
owns(A, ptr) ==
    /\ ptr # 0
    /\ A.blocks # <<>>
    /\ \E i \in 1..Len(A.blocks) : ptr >= A.blocks[i] /\ ptr < A.blocks[i] + BlockSize

\* Arena-allocatable types: sizeof(T) a positive multiple of alignof(T), which
\* is a power of two up to alignof(std::max_align_t); one T fits in a block
Types ==
    {T \in [size : 1..BlockSize, align : {Pow2(k) : k \in 0..AlignShift}] :
        T.size % T.align = 0}

\* What the system allocator may answer to the (at most two) requests of one
\* call: free slots, or 0 when it fails
FreeSlots(A) == Slots \ {A.blocks[i] : i \in 1..Len(A.blocks)}
Fresh(A) ==
    {f \in [1..2 -> FreeSlots(A) \cup {0}] : IF f[1] = 0 THEN f[2] = 0 ELSE f[1] # f[2]}

\* The system allocator refusing every request
NoFresh == [i \in 1..2 |-> 0]

\* The allocator's answers that matter to allocate(size, alignment): all of them
\* when the call asks for a block (it fails on a refusing allocator), else one
Answers(A, size, alignment) ==
    IF allocate(A, size, alignment, NoFresh).error = "bad_alloc" THEN Fresh(A)
    ELSE {NoFresh}

\* Alignments and sizes requested: valid ones, 0, a non-power of two, an
\* alignment above that of a block, a size above BlockSize
RequestAlignments == {0, 1, 2, 3, Alignment, 2 * Alignment}
RequestSizes == {0, 1, BlockSize - 1, BlockSize, BlockSize + 1}

ArenaCall(method, size, alignment, r, A) ==
    [method |-> method, size |-> size, alignment |-> alignment, ok |-> r.ok,
     error |-> r.error, ptr |-> r.ptr, before |-> A]

ArenaInit ==
    /\ arena = NewArena
    /\ arena_call = ArenaCall("none", 0, 0, Thrown(NewArena, ""), NewArena)

CanAllocate == arena.total_allocated_ < MaxTotalAllocated

Allocate ==
    /\ CanAllocate
    /\ \E size \in RequestSizes, alignment \in RequestAlignments :
       \E fresh \in Answers(arena, size, alignment) :
          LET r == allocate(arena, size, alignment, fresh)
          IN  /\ arena' = r.A
              /\ arena_call' = ArenaCall("allocate", size, alignment, r, arena)
    /\ UNCHANGED <<parserVars, diagVars, restVars>>

AllocateT ==
    /\ CanAllocate
    /\ \E T \in Types, count \in 0..MaxCount :
       \E fresh \in Answers(arena, count * T.size, T.align) :
          LET r == allocate_T(arena, T, count, fresh)
          IN  /\ arena' = r.A
              /\ arena_call' = ArenaCall("allocate_T", count * T.size, T.align, r, arena)
    /\ UNCHANGED <<parserVars, diagVars, restVars>>

Emplace ==
    /\ CanAllocate
    /\ \E T \in Types, ctor_throws \in BOOLEAN :
       \E fresh \in Answers(arena, T.size, T.align) :
          LET r == emplace(arena, T, ctor_throws, fresh)
          IN  /\ arena' = r.A
              /\ arena_call' = ArenaCall("emplace", T.size, T.align, r, arena)
    /\ UNCHANGED <<parserVars, diagVars, restVars>>

Reset ==
    /\ arena' = reset(arena)
    /\ arena_call' = ArenaCall("reset", 0, 0, Allocated(arena, 0), arena)
    /\ UNCHANGED <<parserVars, diagVars, restVars>>

ArenaNext == Allocate \/ AllocateT \/ Emplace \/ Reset

(***************************************************************************)
(*                          DIAGNOSTIC ENGINE                              *)
(***************************************************************************)

\* Bounds of the diagnostics model
MaxDiagnostics == 2    \* stored diagnostics
MaxErrorLimit == 2     \* largest max_errors tried
MaxCode == 1           \* diagnostic codes 1..MaxCode

\* enum class DiagnosticLevel
Levels == {"Note", "Warning", "Error", "Fatal"}

\* A Diagnostic: the level and the code of its primary message
Diagnostics == [level : Levels, code : 1..MaxCode]

\* DiagnosticEngine::DiagnosticEngine
NewEngine(max_errors) ==
    [diagnostics_ |-> <<>>, max_errors_ |-> max_errors, error_count_ |-> 0,
     warning_count_ |-> 0, note_count_ |-> 0, fatal_encountered_ |-> FALSE]

\* DiagnosticEngine::has_fatal_error
has_fatal_error(E) == E.fatal_encountered_

\* DiagnosticEngine::error_limit_reached
error_limit_reached(E) == E.max_errors_ > 0 /\ E.error_count_ >= E.max_errors_

\* should_stop_compilation looking at the error limit only
should_stop_at_limit_only(E) == error_limit_reached(E)

\* DiagnosticEngine::should_stop_compilation
should_stop_compilation(E) == has_fatal_error(E) \/ error_limit_reached(E)

\* update_counters without the fallthrough from Fatal to Error
update_counters_without_fallthrough(E, diagnostic) ==
    CASE diagnostic.level = "Fatal" -> [E EXCEPT !.fatal_encountered_ = TRUE]
      [] diagnostic.level = "Error" -> [E EXCEPT !.error_count_ = @ + 1]
      [] diagnostic.level = "Warning" -> [E EXCEPT !.warning_count_ = @ + 1]
      [] diagnostic.level = "Note" -> [E EXCEPT !.note_count_ = @ + 1]

\* DiagnosticEngine::update_counters
update_counters(E, diagnostic) ==
    CASE diagnostic.level = "Fatal" ->
            [E EXCEPT !.fatal_encountered_ = TRUE, !.error_count_ = @ + 1]
      [] diagnostic.level = "Error" -> [E EXCEPT !.error_count_ = @ + 1]
      [] diagnostic.level = "Warning" -> [E EXCEPT !.warning_count_ = @ + 1]
      [] diagnostic.level = "Note" -> [E EXCEPT !.note_count_ = @ + 1]

\* report answering true whenever it stored the diagnostic
report_true_when_accepted(E, diagnostic) ==
    IF should_stop_compilation(E)
    THEN [ret |-> FALSE, E |-> E]
    ELSE [ret |-> TRUE,
          E |-> [update_counters(E, diagnostic) EXCEPT
                    !.diagnostics_ = Append(@, diagnostic)]]

\* DiagnosticEngine::report: the value returned and the engine afterwards
report(E, diagnostic) ==
    IF should_stop_compilation(E)
    THEN [ret |-> FALSE, E |-> E]
    ELSE LET E1 == update_counters(E, diagnostic)
             E2 == [E1 EXCEPT !.diagnostics_ = Append(@, diagnostic)]
         IN  [ret |-> ~should_stop_compilation(E2), E |-> E2]

\* DiagnosticEngine::fatal
fatal(E, code) ==
    LET E1 == [E EXCEPT !.fatal_encountered_ = TRUE]
        r == report(E1, [level |-> "Fatal", code |-> code])
    IN  [ret |-> FALSE, E |-> r.E]

\* DiagnosticEngine::clear
clear(E) ==
    [E EXCEPT !.diagnostics_ = <<>>, !.error_count_ = 0, !.warning_count_ = 0,
              !.note_count_ = 0, !.fatal_encountered_ = FALSE]

\* DiagnosticEngine::set_max_errors
set_max_errors(E, max_errors) == [E EXCEPT !.max_errors_ = max_errors]

NoAccepted == [l \in Levels |-> 0]

\* The history after a call that took the engine from E to F with diagnostic d:
\* d counts as accepted when the call stored it
Accept(acc, E, F, d) ==
    IF Len(F.diagnostics_) = Len(E.diagnostics_) + 1 /\ F.diagnostics_[Len(F.diagnostics_)] = d
    THEN [acc EXCEPT ![d.level] = @ + 1]
    ELSE acc

EngineCall(method, d, ret, E) ==
    [method |-> method, diagnostic |-> d, ret |-> ret, before |-> E]

\* No DiagnosticBuilder exists
NoBuilders == <<>>
BuildersIdle ==
    /\ builders = NoBuilders
    /\ submissions = <<>>

\* No thread besides the caller uses the engine
NoThreads == [pc |-> <<>>, made |-> <<>>, end |-> <<>>, storage |-> <<>>]
ThreadsIdle == threads = NoThreads

ClientsIdle == BuildersIdle /\ ThreadsIdle

EngineInit ==
    /\ \E max_errors \in 0..MaxErrorLimit : engine = NewEngine(max_errors)
    /\ report_call = EngineCall("none", [level |-> "Note", code |-> 1], FALSE, engine)
    /\ accepted = NoAccepted

DiagInit == EngineInit /\ ClientsIdle

\* A call may be made while it cannot store more than MaxDiagnostics diagnostics
CanReport == Len(engine.diagnostics_) < MaxDiagnostics \/ should_stop_compilation(engine)

\* report(diagnostic), and error(), warning(), note(), which call it
Report ==
    /\ CanReport
    /\ \E d \in Diagnostics :
          LET r == report(engine, d)
          IN  /\ engine' = r.E
              /\ report_call' = EngineCall("report", d, r.ret, engine)
              /\ accepted' = Accept(accepted, engine, r.E, d)
    /\ UNCHANGED <<clientVars, parserVars, arenaVars, restVars>>

Fatal ==
    /\ CanReport
    /\ \E code \in 1..MaxCode :
          LET d == [level |-> "Fatal", code |-> code]
              r == fatal(engine, code)
          IN  /\ engine' = r.E
              /\ report_call' = EngineCall("fatal", d, r.ret, engine)
              /\ accepted' = Accept(accepted, engine, r.E, d)
    /\ UNCHANGED <<clientVars, parserVars, arenaVars, restVars>>

\* clear(), which also resets the arena the engine was constructed with
Clear ==
    /\ engine' = clear(engine)
    /\ report_call' = EngineCall("clear", report_call.diagnostic, FALSE, engine)
    /\ accepted' = NoAccepted
    /\ arena' = reset(arena)
    /\ UNCHANGED <<clientVars, arena_call, parserVars, restVars>>

SetMaxErrors ==
    /\ \E max_errors \in 0..MaxErrorLimit :
          /\ max_errors # engine.max_errors_
          /\ engine' = set_max_errors(engine, max_errors)
    /\ report_call' = EngineCall("set_max_errors", report_call.diagnostic, FALSE, engine)
    /\ UNCHANGED <<accepted, clientVars, parserVars, arenaVars, restVars>>

DiagNext == Report \/ Fatal \/ Clear \/ SetMaxErrors

(***************************************************************************)
(*                         DIAGNOSTIC BUILDER                              *)
(***************************************************************************)

\* Bound of the builder model: the builders one diagnostic passes through
MaxBuilders == 2

\* DiagnosticBuilder(engine, level, code, message, location); alive, moved_from
\* and emit_called are history of the object, not members
DiagnosticBuilder(level, code) ==
    [diagnostic_ |-> [level |-> level, code |-> code],
     emitted_    |-> FALSE,
     alive       |-> TRUE,
     moved_from  |-> FALSE,
     emit_called |-> FALSE]

\* DiagnosticBuilder(DiagnosticBuilder&& other): the new builder
move_construct(other) ==
    [diagnostic_ |-> other.diagnostic_,
     emitted_    |-> other.emitted_,
     alive       |-> TRUE,
     moved_from  |-> FALSE,
     emit_called |-> FALSE]

\* DiagnosticBuilder(DiagnosticBuilder&& other): what is left of other
moved_from_builder(other) == [other EXCEPT !.emitted_ = TRUE, !.moved_from = TRUE]

\* emit() of builder b on engine E: engine_.report(std::move(diagnostic_));
\* emitted_ is left as it was
emit(E, b) ==
    LET r == report(E, b.diagnostic_)
    IN  [ret |-> r.ret, E |-> r.E, b |-> b]

\* The engine and the history after builder i called emit()
Emitted(i, b) ==
    LET r == emit(engine, builders[i])
    IN  /\ engine' = r.E
        /\ report_call' = EngineCall("report", builders[i].diagnostic_, r.ret, engine)
        /\ accepted' = Accept(accepted, engine, r.E, builders[i].diagnostic_)
        /\ submissions' = Append(submissions, builders[i].diagnostic_)
        /\ builders' = [builders EXCEPT ![i] = b]

\* One builder made by make_error, make_warning, make_fatal or the constructor
BuilderInit ==
    /\ EngineInit
    /\ \E d \in Diagnostics : builders = <<DiagnosticBuilder(d.level, d.code)>>
    /\ submissions = <<>>
    /\ ThreadsIdle

\* builder.emit() called by the owner, once, on a builder that holds the diagnostic
EmitBuilder ==
    \E i \in 1..Len(builders) :
        /\ builders[i].alive
        /\ ~builders[i].moved_from
        /\ \A j \in 1..Len(builders) : ~builders[j].emit_called
        /\ Emitted(i, [emit(engine, builders[i]).b EXCEPT !.emit_called = TRUE])
        /\ UNCHANGED <<threadVars, parserVars, arenaVars, restVars>>

\* auto moved = std::move(builder);
MoveBuilder ==
    \E i \in 1..Len(builders) :
        /\ Len(builders) < MaxBuilders
        /\ builders[i].alive
        /\ ~builders[i].moved_from
        /\ builders' = Append([builders EXCEPT ![i] = moved_from_builder(builders[i])],
                              move_construct(builders[i]))
        /\ UNCHANGED <<engine, report_call, accepted, submissions, threadVars, parserVars, arenaVars, restVars>>

\* ~DiagnosticBuilder(): if (!emitted_) { emit(); }
DestroyBuilder ==
    \E i \in 1..Len(builders) :
        /\ builders[i].alive
        /\ IF ~builders[i].emitted_
           THEN Emitted(i, [emit(engine, builders[i]).b EXCEPT !.alive = FALSE])
           ELSE /\ builders' = [builders EXCEPT ![i].alive = FALSE]
                /\ UNCHANGED <<engine, report_call, accepted, submissions>>
        /\ UNCHANGED <<threadVars, parserVars, arenaVars, restVars>>

BuilderNext == EmitBuilder \/ MoveBuilder \/ DestroyBuilder

(***************************************************************************)
(*                          SORTING DIAGNOSTICS                            *)
(***************************************************************************)

\* Bound of the sorting model: the diagnostics reported before a sort
MaxSorted == 3

\* The lambda level_priority of sort_by_severity: Fatal > Error > Warning > Note
level_priority(level) ==
    CASE level = "Fatal"   -> 3
      [] level = "Error"   -> 2
      [] level = "Warning" -> 1
      [] level = "Note"    -> 0

\* The comparison sort_by_severity hands to std::sort
severity_before(a, b) == level_priority(a.level) > level_priority(b.level)

\* The postcondition of std::sort: no element is ordered before an earlier one
is_sorted(s) ==
    \A i, j \in 1..Len(s) : i < j => ~severity_before(s[j], s[i])

\* The results std::sort may leave for s: every permutation of s in sorted
\* order; the order of equivalent elements is not specified
std_sort(s) ==
    { t \in { [i \in 1..Len(s) |-> s[f[i]]] : f \in Permutations(1..Len(s)) } :
          is_sorted(t) }

\* sort_by_severity()
sort_by_severity(E) ==
    { [E EXCEPT !.diagnostics_ = t] : t \in std_sort(E.diagnostics_) }

\* A report whose diagnostic carries the number of the reports made so far
\* as its code, so that any two stored diagnostics differ
ReportNumbered ==
    /\ Len(engine.diagnostics_) < MaxSorted
    /\ \E level \in Levels :
          LET d == [level |-> level, code |-> Len(engine.diagnostics_) + 1]
              r == report(engine, d)
          IN  /\ r.E # engine
              /\ engine' = r.E
              /\ report_call' = EngineCall("report", d, r.ret, engine)
              /\ accepted' = Accept(accepted, engine, r.E, d)
    /\ UNCHANGED <<clientVars, parserVars, arenaVars, restVars>>

SortBySeverity ==
    /\ engine' \in sort_by_severity(engine)
    /\ report_call' = EngineCall("sort_by_severity", report_call.diagnostic, FALSE, engine)
    /\ UNCHANGED <<accepted, clientVars, parserVars, arenaVars, restVars>>

SortNext == ReportNumbered \/ SortBySeverity

(***************************************************************************)
(*                    THREADS REPORTING TO ONE ENGINE                      *)
(***************************************************************************)

\* Bounds of the threads model
NumThreads == 2          \* threads sharing the engine
ReportsPerThread == 2    \* error() calls of each thread

ThreadIds == 1..NumThreads

\* The diagnostic of the j-th error() of thread t ("thread t error j"); the code
\* stands for the message, which differs from report to report
ThreadDiagnostic(t, j) == [level |-> "Error", code |-> (t - 1) * ReportsPerThread + j]

\* The diagnostic thread t is reporting
CurrentDiagnostic(t) == ThreadDiagnostic(t, threads.made[t])

\* Memory of the vector that no push_back has written
Uninitialized == [level |-> "Note", code |-> 0]

\* An engine without error limit and the threads about to call error(); storage
\* is the memory of diagnostics_, of which diagnostics_ shows the part before
\* its end
ThreadsInit ==
    /\ engine = NewEngine(0)
    /\ report_call = EngineCall("none", [level |-> "Note", code |-> 1], FALSE, engine)
    /\ accepted = NoAccepted
    /\ BuildersIdle
    /\ threads = [pc      |-> [t \in ThreadIds |-> "error"],
                  made    |-> [t \in ThreadIds |-> 0],
                  end     |-> [t \in ThreadIds |-> 0],
                  storage |-> [k \in 1..(NumThreads * ReportsPerThread) |-> Uninitialized]]

\* Thread t calls error(), which enters report: if (should_stop_compilation())
\* return false; the counters are read atomically
ThreadShouldStop(t) ==
    /\ threads.pc[t] = "error"
    /\ threads.made[t] < ReportsPerThread
    /\ threads' = [threads EXCEPT
                      !.made[t] = @ + 1,
                      !.pc[t] = IF should_stop_compilation(engine)
                                THEN "error" ELSE "update_counters"]
    /\ UNCHANGED <<engine, report_call, accepted, builderVars, parserVars, arenaVars, restVars>>

\* update_counters(diagnostic): error_count_.fetch_add(1), atomic
ThreadUpdateCounters(t) ==
    /\ threads.pc[t] = "update_counters"
    /\ engine' = update_counters(engine, CurrentDiagnostic(t))
    /\ threads' = [threads EXCEPT !.pc[t] = "push_back"]
    /\ UNCHANGED <<report_call, accepted, builderVars, parserVars, arenaVars, restVars>>

\* diagnostics_.push_back, first half: the vector's end is read.  The vector is
\* not synchronized: the accesses of two threads race, and a race of push_back
\* can leave what any interleaving of its reads and writes leaves
ThreadPushBackRead(t) ==
    /\ threads.pc[t] = "push_back"
    /\ threads' = [threads EXCEPT !.end[t] = Len(engine.diagnostics_),
                                  !.pc[t] = "push_back_store"]
    /\ UNCHANGED <<engine, report_call, accepted, builderVars, parserVars, arenaVars, restVars>>

\* diagnostics_.push_back, second half: the element is constructed at the end
\* that was read, and the end is set one past it
ThreadPushBackStore(t) ==
    /\ threads.pc[t] = "push_back_store"
    /\ LET d == CurrentDiagnostic(t)
           storage == [threads.storage EXCEPT ![threads.end[t] + 1] = d]
           F == [engine EXCEPT !.diagnostics_ = SubSeq(storage, 1, threads.end[t] + 1)]
       IN  /\ engine' = F
           /\ accepted' = Accept(accepted, engine, F, d)
           /\ threads' = [threads EXCEPT !.storage = storage, !.pc[t] = "return"]
    /\ UNCHANGED <<report_call, builderVars, parserVars, arenaVars, restVars>>

\* return !should_stop_compilation();
ThreadReturn(t) ==
    /\ threads.pc[t] = "return"
    /\ report_call' = EngineCall("report", CurrentDiagnostic(t),
                                 ~should_stop_compilation(engine), engine)
    /\ threads' = [threads EXCEPT !.pc[t] = "error"]
    /\ UNCHANGED <<engine, accepted, builderVars, parserVars, arenaVars, restVars>>

\* The same threads on an engine with an error limit max_errors = N > 0
LimitedThreadsInit ==
    /\ \E max_errors \in 1..MaxErrorLimit : engine = NewEngine(max_errors)
    /\ report_call = EngineCall("none", [level |-> "Note", code |-> 1], FALSE, engine)
    /\ accepted = NoAccepted
    /\ BuildersIdle
    /\ threads = [pc      |-> [t \in ThreadIds |-> "error"],
                  made    |-> [t \in ThreadIds |-> 0],
                  end     |-> [t \in ThreadIds |-> 0],
                  storage |-> [k \in 1..(NumThreads * ReportsPerThread) |-> Uninitialized]]

ThreadsNext ==
    \E t \in ThreadIds :
        \/ ThreadShouldStop(t)
        \/ ThreadUpdateCounters(t)
        \/ ThreadPushBackRead(t)
        \/ ThreadPushBackStore(t)
        \/ ThreadReturn(t)

\* thread.join() has returned for every thread
AllThreadsJoined ==
    /\ threads # NoThreads
    /\ \A t \in ThreadIds : threads.pc[t] = "error" /\ threads.made[t] = ReportsPerThread

(***************************************************************************)
(*                            SOURCE MANAGER                               *)
(***************************************************************************)

\* Bounds of the source manager model
MaxFileId == 4        \* loads are made while next_file_id_ is below this
MaxFileSize == 2      \* SourceManagerOptions::max_file_size, scaled down
MaxTotalSize == 3     \* SourceManagerOptions::max_total_size, scaled down
MaxFiles == 2         \* SourceManagerOptions::max_files, scaled down

\* File names given to the manager and paths the resolver answers
FileNames == {"a.pht", "b.pht", "c.pht"}
ResolvedPaths == {"/a.pht", "/b.pht"}
ContentSizes == 1..(MaxFileSize + 1)

\* SourceManager::SourceManager. files_ maps a FileID to its SourceFile (path,
\* byte_count), filename_to_id_ a name to a FileID
NewManager ==
    [files_ |-> [id \in {} |-> 0],
     filename_to_id_ |-> [n \in {} |-> 0],
     next_file_id_ |-> 1,
     total_bytes_loaded_ |-> 0,
     total_files_loaded_ |-> 0]

\* Result<FileID, SourceError>: a FileID, or an error (value is then unused)
Loaded(M, id) == [ok |-> TRUE, value |-> id, error |-> "", M |-> M]
Refused(M, e) == [ok |-> FALSE, value |-> 0, error |-> e, M |-> M]

\* m with key k bound to v: map[k] = v
Put(m, k, v) == [x \in DOMAIN m \cup {k} |-> IF x = k THEN v ELSE m[x]]

\* SourceManager::can_load_file
can_load_file(M, size) ==
    IF size > MaxFileSize THEN FALSE
    ELSE IF M.total_bytes_loaded_ + size > MaxTotalSize THEN FALSE
    ELSE IF M.total_files_loaded_ >= MaxFiles THEN FALSE
    ELSE TRUE

\* FileID file_id = next_file_id_++;
take_file_id(M) == [M EXCEPT !.next_file_id_ = @ + 1]

\* "Update statistics" and "Store the file" of both load functions
store_file(M, file_id, names, path, size) ==
    [M EXCEPT !.total_bytes_loaded_ = @ + size,
              !.total_files_loaded_ = @ + 1,
              !.files_ = Put(@, file_id, [path |-> path, byte_count |-> size]),
              !.filename_to_id_ = [n \in DOMAIN @ \cup names |->
                                      IF n \in names THEN file_id ELSE @[n]]]

\* SourceManager::load_from_string(filename, content), content given by its size
load_from_string(M, filename, size) ==
    IF filename \in DOMAIN M.filename_to_id_
    THEN Loaded(M, M.filename_to_id_[filename])
    ELSE IF ~can_load_file(M, size) THEN Refused(M, "FileTooLarge")
    ELSE Loaded(store_file(take_file_id(M), M.next_file_id_, {filename}, filename, size),
                M.next_file_id_)

\* What the resolver answers during one load_file: resolve_path (path, or ""
\* for FileNotFound), file_size (-1 for an error), memory_map_file and
\* load_file (whether they succeed)
ResolverAnswers ==
    [path : ResolvedPaths \cup {""}, size : ContentSizes \cup {-1},
     memory_map_file : BOOLEAN, load_file : BOOLEAN]

\* SourceManager::load_file(filename) with the resolver answering r; memory
\* mapping is enabled and every size is taken to reach its threshold
load_file(M, filename, r) ==
    IF filename \in DOMAIN M.filename_to_id_
    THEN Loaded(M, M.filename_to_id_[filename])
    ELSE IF r.path = "" THEN Refused(M, "FileNotFound")
    ELSE IF r.path \in DOMAIN M.filename_to_id_
    THEN Loaded([M EXCEPT !.filename_to_id_ = Put(@, filename, M.filename_to_id_[r.path])],
                M.filename_to_id_[r.path])
    ELSE IF r.size = -1 THEN Refused(M, "AccessDenied")
    ELSE IF ~can_load_file(M, r.size) THEN Refused(M, "FileTooLarge")
    ELSE IF ~r.memory_map_file /\ ~r.load_file
    THEN Refused(take_file_id(M), "AccessDenied")
    ELSE Loaded(store_file(take_file_id(M), M.next_file_id_, {filename, r.path},
                           r.path, r.size),
                M.next_file_id_)

\* SourceManager::clear
clear_manager(M) ==
    [M EXCEPT !.files_ = [id \in {} |-> 0],
              !.filename_to_id_ = [n \in {} |-> 0],
              !.next_file_id_ = 1,
              !.total_bytes_loaded_ = 0,
              !.total_files_loaded_ = 0]

\* The last call, its outcome, the manager before it and the FileIDs the
\* greatest FileID the manager had handed out for a new file before it (0: none)
ManagerCall(method, size, r, M, issued) ==
    [method |-> method, size |-> size, ok |-> r.ok, value |-> r.value,
     error |-> r.error, before |-> M, issued |-> issued]

\* The call registered a new file
Registers(M, r) == r.ok /\ r.value \notin DOMAIN M.files_ /\ r.value \in DOMAIN r.M.files_

\* The greatest FileID handed out for a new file up to and including the last call
Issued ==
    IF /\ Registers(manager_call.before, [ok |-> manager_call.ok, value |-> manager_call.value,
                                           M |-> manager])
       /\ manager_call.value > manager_call.issued
    THEN manager_call.value ELSE manager_call.issued

CanLoad == manager.next_file_id_ < MaxFileId

ManagerInit ==
    /\ manager = NewManager
    /\ manager_call = ManagerCall("none", 0, Refused(NewManager, ""), NewManager, 0)

LoadFile ==
    /\ CanLoad
    /\ \E filename \in FileNames, r \in ResolverAnswers :
          LET res == load_file(manager, filename, r)
          IN  /\ manager' = res.M
              /\ manager_call' = ManagerCall("load_file", r.size, res, manager, Issued)
    /\ UNCHANGED <<parserVars, diagVars, arenaVars, fileVars, lexerVars>>

LoadFromString ==
    /\ CanLoad
    /\ \E filename \in FileNames, size \in ContentSizes :
          LET res == load_from_string(manager, filename, size)
          IN  /\ manager' = res.M
              /\ manager_call' = ManagerCall("load_from_string", size, res, manager, Issued)
    /\ UNCHANGED <<parserVars, diagVars, arenaVars, fileVars, lexerVars>>

ClearManager ==
    /\ manager' = clear_manager(manager)
    /\ manager_call' = ManagerCall("clear", 0, Refused(manager, ""), manager, Issued)
    /\ UNCHANGED <<parserVars, diagVars, arenaVars, fileVars, lexerVars>>

ManagerNext == LoadFile \/ LoadFromString \/ ClearManager

(***************************************************************************)
(*                             SOURCE FILE                                 *)
(***************************************************************************)

\* Bounds of the source file model
MaxContentLen == 4    \* bytes of a file's content

\* Bytes of text: a letter, '\n' and '\r'
LetterByte == 97
LF == 10
CR == 13
TextBytes == {LetterByte, LF, CR}

\* Bytes of every class the UTF-8 decoder tells apart: ASCII, continuation
\* bytes 0x80 0x90 0xA0 0xBF, and the lead bytes 0xC0 0xC2 0xE0 0xED 0xF0
\* 0xF4 0xF5 0xF8
Utf8Bytes == {65, 128, 144, 160, 191, 192, 194, 224, 237, 240, 244, 245, 248}

\* SourceFile::build_line_offsets, the loop from index i (0-based) on
RECURSIVE build_line_offsets_from(_, _, _)
build_line_offsets_from(content, i, line_offsets) ==
    IF i >= Len(content) THEN line_offsets
    ELSE IF content[i + 1] = LF
    THEN build_line_offsets_from(content, i + 1, Append(line_offsets, i + 1))
    ELSE IF content[i + 1] = CR
    THEN IF i + 1 < Len(content) /\ content[i + 2] = LF
         THEN build_line_offsets_from(content, i + 2, Append(line_offsets, i + 2))
         ELSE build_line_offsets_from(content, i + 1, Append(line_offsets, i + 1))
    ELSE build_line_offsets_from(content, i + 1, line_offsets)

\* SourceFile::build_line_offsets
build_line_offsets(content) == build_line_offsets_from(content, 0, <<0>>)

\* SourceFile::SourceFile(file_id, filename, content, arena)
SourceFile(content) ==
    [content_ |-> content, line_offsets_ |-> build_line_offsets(content)]

\* std::upper_bound(line_offsets_.begin(), line_offsets_.end(), offset), as a
\* 1-based index; Len + 1 stands for end()
upper_bound(line_offsets, offset) ==
    IF \E k \in 1..Len(line_offsets) : line_offsets[k] > offset
    THEN CHOOSE k \in 1..Len(line_offsets) :
            /\ line_offsets[k] > offset
            /\ \A j \in 1..(k - 1) : line_offsets[j] <= offset
    ELSE Len(line_offsets) + 1

LineColumn(line, column) == [ok |-> TRUE, line |-> line, column |-> column, error |-> ""]
NoLineColumn(e) == [ok |-> FALSE, line |-> 0, column |-> 0, error |-> e]
Offset(o) == [ok |-> TRUE, offset |-> o, error |-> ""]
NoOffset(e) == [ok |-> FALSE, offset |-> 0, error |-> e]

\* SourceFile::offset_to_line_column
offset_to_line_column(F, offset) ==
    IF offset > Len(F.content_) THEN NoLineColumn("InvalidEncoding")
    ELSE LET it == upper_bound(F.line_offsets_, offset)
         IN  IF it = 1 THEN NoLineColumn("InvalidEncoding")
             ELSE LineColumn(it - 1, offset - F.line_offsets_[it - 1] + 1)

\* line_column_to_offset refusing the column just past the end of the line
line_column_to_offset_within_line(F, line, column) ==
    IF line = 0 \/ line > Len(F.line_offsets_) THEN NoOffset("InvalidEncoding")
    ELSE LET line_start == F.line_offsets_[line]
             line_end == IF line < Len(F.line_offsets_)
                         THEN F.line_offsets_[line + 1] - 1
                         ELSE Len(F.content_)
             line_length == line_end - line_start
         IN  IF column = 0 \/ column > line_length THEN NoOffset("InvalidEncoding")
             ELSE Offset(line_start + column - 1)

\* SourceFile::line_column_to_offset
line_column_to_offset(F, line, column) ==
    IF line = 0 \/ line > Len(F.line_offsets_) THEN NoOffset("InvalidEncoding")
    ELSE LET line_start == F.line_offsets_[line]
             line_end == IF line < Len(F.line_offsets_)
                         THEN F.line_offsets_[line + 1] - 1
                         ELSE Len(F.content_)
             line_length == line_end - line_start
         IN  IF column = 0 \/ column > line_length + 1 THEN NoOffset("InvalidEncoding")
             ELSE Offset(line_start + column - 1)

\* (byte & 0xC0) == 0x80
is_continuation(byte) == BitAnd(byte, 192) = 128

\* SourceFile::validate_utf8, the loop from index i (0-based) on
RECURSIVE validate_utf8_from(_, _)
validate_utf8_from(data, i) ==
    LET size == Len(data)
        byte == data[i + 1]
    IN  IF i >= size THEN TRUE
        ELSE IF byte < 128 THEN validate_utf8_from(data, i + 1)
        ELSE IF BitAnd(byte, 224) = 192
        THEN IF i + 1 >= size \/ ~is_continuation(data[i + 2]) THEN FALSE
             ELSE validate_utf8_from(data, i + 2)
        ELSE IF BitAnd(byte, 240) = 224
        THEN IF i + 2 >= size \/ ~is_continuation(data[i + 2]) \/ ~is_continuation(data[i + 3])
             THEN FALSE
             ELSE validate_utf8_from(data, i + 3)
        ELSE IF BitAnd(byte, 248) = 240
        THEN IF \/ i + 3 >= size \/ ~is_continuation(data[i + 2])
                \/ ~is_continuation(data[i + 3]) \/ ~is_continuation(data[i + 4])
             THEN FALSE
             ELSE validate_utf8_from(data, i + 4)
        ELSE FALSE

\* SourceFile::validate_utf8
validate_utf8(F) == validate_utf8_from(F.content_, 0)

\* The last SourceFile method called, its arguments and what it returned; for
\* a round trip, position is what offset_to_line_column returned and result
\* what line_column_to_offset returned for it
FileCall(method, offset, position, result, valid) ==
    [method |-> method, offset |-> offset, position |-> position, result |-> result,
     valid |-> valid]

NoFileCall == FileCall("none", 0, NoLineColumn(""), NoOffset(""), FALSE)

\* Contents of at most MaxContentLen bytes taken from the set bytes
Contents(bytes) == UNION {[1..n -> bytes] : n \in 0..MaxContentLen}

FileIdle ==
    /\ file = SourceFile(<<>>)
    /\ file_call = NoFileCall

\* A file of text with LF, CRLF and bare CR line terminators
TextFileInit ==
    /\ \E content \in Contents(TextBytes) : file = SourceFile(content)
    /\ file_call = NoFileCall

\* A file of arbitrary bytes
BinaryFileInit ==
    /\ \E content \in Contents(Utf8Bytes) : file = SourceFile(content)
    /\ file_call = NoFileCall

\* offset_to_line_column(offset), then line_column_to_offset of its answer
RoundTrip ==
    /\ \E offset \in 0..(Len(file.content_) + 1) :
          LET position == offset_to_line_column(file, offset)
          IN  /\ position.ok
              /\ file_call' = FileCall("round_trip", offset, position,
                                       line_column_to_offset(file, position.line, position.column),
                                       FALSE)
    /\ UNCHANGED <<file, parserVars, diagVars, arenaVars, managerVars, lexerVars>>

OffsetToLineColumn ==
    /\ \E offset \in 0..(Len(file.content_) + 1) :
          file_call' = FileCall("offset_to_line_column", offset,
                                offset_to_line_column(file, offset), NoOffset(""), FALSE)
    /\ UNCHANGED <<file, parserVars, diagVars, arenaVars, managerVars, lexerVars>>

LineColumnToOffset ==
    /\ \E line \in 0..(Len(file.line_offsets_) + 1), column \in 0..(Len(file.content_) + 2) :
          file_call' = FileCall("line_column_to_offset", 0, LineColumn(line, column),
                                line_column_to_offset(file, line, column), FALSE)
    /\ UNCHANGED <<file, parserVars, diagVars, arenaVars, managerVars, lexerVars>>

ValidateUtf8 ==
    /\ file_call' = FileCall("validate_utf8", 0, NoLineColumn(""), NoOffset(""),
                             validate_utf8(file))
    /\ UNCHANGED <<file, parserVars, diagVars, arenaVars, managerVars, lexerVars>>

LinesNext == RoundTrip \/ OffsetToLineColumn \/ LineColumnToOffset

(***************************************************************************)
(*                                LEXER                                    *)
(***************************************************************************)

\* Bound of the lexer model
MaxInputLen == 4      \* characters of the input

\* The characters of the inputs: a letter, a digit, '+', '=', '(', a space and
\* a newline
InputChars == {"a", "1", "+", "=", "(", " ", "\n"}

\* LexerImpl after tokenize_internal has set position_ = 0, line_ = 1, column_ = 1
NewLexer(input) == [input_ |-> input, position_ |-> 0, line_ |-> 1, column_ |-> 1]

\* peek(); NUL stands for the character '\\0'
peek(L) == IF L.position_ < Len(L.input_) THEN L.input_[L.position_ + 1] ELSE "NUL"

\* advance() of the lexer
lexer_advance(L) ==
    IF L.position_ < Len(L.input_)
    THEN IF L.input_[L.position_ + 1] = "\n"
         THEN [L EXCEPT !.line_ = @ + 1, !.column_ = 1, !.position_ = @ + 1]
         ELSE [L EXCEPT !.column_ = @ + 1, !.position_ = @ + 1]
    ELSE L

\* create_location()
create_location(L) ==
    [line |-> L.line_, column |-> L.column_, byte_offset |-> L.position_]

\* create_location(line, column)
create_location_at(L, line, column) ==
    [line |-> line, column |-> column, byte_offset |-> L.position_]

\* skip_whitespace(), preserve_whitespace being off
RECURSIVE skip_whitespace(_)
skip_whitespace(L) ==
    IF L.position_ < Len(L.input_) /\ peek(L) \in {" ", "\n"}
    THEN skip_whitespace(lexer_advance(L))
    ELSE L

\* while (position_ < input_.size() && pred(peek())) advance();
RECURSIVE advance_while(_, _)
advance_while(L, chars) ==
    IF L.position_ < Len(L.input_) /\ peek(L) \in chars
    THEN advance_while(lexer_advance(L), chars)
    ELSE L

\* A Token and the lexer after it; start is the offset of the token's first
\* byte, kept for the properties
LexToken(type, location, start, L) ==
    [ok |-> TRUE, L |-> L, token |-> [type |-> type, location |-> location, start |-> start]]

\* next_token(), for the characters of InputChars
next_token(L0) ==
    LET L == skip_whitespace(L0)
        start_line == L.line_
        start_column == L.column_
        c == peek(L)
    IN  IF L.position_ >= Len(L.input_)
        THEN LexToken("Eof", create_location(L), L.position_, L)
        ELSE IF c = "a"
        THEN \* tokenize_identifier_or_keyword
             LET M == advance_while(L, {"a", "1"})
             IN  LexToken("Identifier", create_location_at(M, start_line, start_column),
                          L.position_, M)
        ELSE IF c = "1"
        THEN \* tokenize_number, decimal
             LET M == advance_while(L, {"1"})
             IN  LexToken("IntegerLiteral", create_location_at(M, start_line, start_column),
                          L.position_, M)
        ELSE IF c = "+"
        THEN \* tokenize_plus
             LET M == lexer_advance(L)
             IN  IF M.position_ < Len(M.input_) /\ peek(M) = "="
                 THEN LexToken("PlusAssign",
                               create_location_at(lexer_advance(M), start_line, start_column),
                               L.position_, lexer_advance(M))
                 ELSE LexToken("Plus", create_location_at(M, start_line, start_column),
                               L.position_, M)
        ELSE IF c = "="
        THEN \* tokenize_equal
             LET M == lexer_advance(L)
             IN  IF M.position_ < Len(M.input_) /\ peek(M) = "="
                 THEN LexToken("Equal",
                               create_location_at(lexer_advance(M), start_line, start_column),
                               L.position_, lexer_advance(M))
                 ELSE LexToken("Assign", create_location_at(M, start_line, start_column),
                               L.position_, M)
        ELSE \* case CharClass::LeftParen
             LexToken("LeftParen",
                      create_location_at(lexer_advance(L), start_line, start_column),
                      L.position_, lexer_advance(L))

\* The loop of tokenize_internal
RECURSIVE tokenize_loop(_, _)
tokenize_loop(L, tokens) ==
    IF L.position_ < Len(L.input_)
    THEN LET r == next_token(L)
         IN  IF r.token.type = "Eof" THEN [L |-> r.L, tokens |-> Append(tokens, r.token)]
             ELSE tokenize_loop(r.L, Append(tokens, r.token))
    ELSE [L |-> L, tokens |-> tokens]

\* tokenize_internal()
tokenize_internal(input) ==
    LET r == tokenize_loop(NewLexer(input), <<>>)
    IN  IF r.tokens = <<>> \/ r.tokens[Len(r.tokens)].type # "Eof"
        THEN [r EXCEPT !.tokens = Append(@, [type |-> "Eof", location |-> create_location(r.L),
                                             start |-> r.L.position_])]
        ELSE r

LexerInputs == UNION {[1..n -> InputChars] : n \in 0..MaxInputLen}

LexerIdle ==
    /\ lexer = NewLexer(<<>>)
    /\ lex_call = [method |-> "none", tokens |-> <<>>]

\* A lexer constructed for an input
LexerInit ==
    /\ \E input \in LexerInputs : lexer = NewLexer(input)
    /\ lex_call = [method |-> "none", tokens |-> <<>>]

\* Lexer::tokenize
Tokenize ==
    /\ LET r == tokenize_internal(lexer.input_)
       IN  /\ lexer' = r.L
           /\ lex_call' = [method |-> "tokenize", tokens |-> r.tokens]
    /\ UNCHANGED <<parserVars, diagVars, arenaVars, managerVars, fileVars>>

(***************************************************************************)
(*                            SPECIFICATIONS                               *)
(***************************************************************************)

ParserIdle ==
    /\ parser = NewParser(<<eof_token>>,
                          [enable_error_recovery |-> TRUE,
                           max_recursion_depth |-> DefaultRecursionDepth])
    /\ parse_call = NoCall(parser)
    /\ parse_calls = 0

DiagIdle ==
    /\ engine = NewEngine(0)
    /\ report_call = EngineCall("none", [level |-> "Note", code |-> 1], FALSE, engine)
    /\ accepted = NoAccepted
    /\ ClientsIdle

ArenaIdle == ArenaInit

RestIdle == ManagerInit /\ FileIdle /\ LexerIdle

\* The parser on its own
InitParser == ParserInit /\ DiagIdle /\ ArenaIdle /\ RestIdle
SpecParser == InitParser /\ [][ParserNext]_vars

\* The parser on nested expressions
InitNesting == NestingInit /\ DiagIdle /\ ArenaIdle /\ RestIdle
SpecNesting == InitNesting /\ [][ParserNext]_vars

\* The diagnostic engine on its own
InitDiag == DiagInit /\ ParserIdle /\ ArenaIdle /\ RestIdle
SpecDiag == InitDiag /\ [][DiagNext]_vars

\* Reports of distinguishable diagnostics and sorts of what is stored
SpecSort == InitDiag /\ [][SortNext]_vars

\* Threads that report Errors to one engine at the same time
InitThreads == ThreadsInit /\ ParserIdle /\ ArenaIdle /\ RestIdle
SpecThreads == InitThreads /\ [][ThreadsNext]_vars

\* Threads reporting errors to one engine that has an error limit
InitLimitedThreads == LimitedThreadsInit /\ ParserIdle /\ ArenaIdle /\ RestIdle
SpecLimitedThreads == InitLimitedThreads /\ [][ThreadsNext]_vars

\* The source manager on its own
InitManager == ManagerInit /\ ParserIdle /\ DiagIdle /\ ArenaIdle /\ FileIdle /\ LexerIdle
SpecManager == InitManager /\ [][ManagerNext]_vars

\* Line and column lookups in a text file
InitLines == TextFileInit /\ ParserIdle /\ DiagIdle /\ ArenaIdle /\ ManagerInit /\ LexerIdle
SpecLines == InitLines /\ [][LinesNext]_vars

\* UTF-8 validation of a file of arbitrary bytes
InitUtf8 == BinaryFileInit /\ ParserIdle /\ DiagIdle /\ ArenaIdle /\ ManagerInit /\ LexerIdle
SpecUtf8 == InitUtf8 /\ [][ValidateUtf8]_vars

\* Tokenization of one input
InitLexer == LexerInit /\ ParserIdle /\ DiagIdle /\ ArenaIdle /\ ManagerInit /\ FileIdle
SpecLexer == InitLexer /\ [][Tokenize]_vars

\* The lifetime of one diagnostic held by DiagnosticBuilder objects
InitBuilder == BuilderInit /\ ParserIdle /\ ArenaIdle /\ RestIdle
SpecBuilder == InitBuilder /\ [][BuilderNext]_vars

\* The arena on its own
InitArena == ArenaInit /\ ParserIdle /\ DiagIdle /\ RestIdle
SpecArena == InitArena /\ [][ArenaNext]_vars

(***************************************************************************)
(*                        PROPERTIES: the parser                           *)
(***************************************************************************)

\* The last call was `method`, made on a freshly constructed Parser over
\* `tokens` with the default recursion limit
FreshCall(method, tokens) ==
    /\ parse_call.method = method
    /\ parse_call.before = NewParser(tokens, parse_call.before.options_)
    /\ parse_call.before.options_.max_recursion_depth = DefaultRecursionDepth

Lit(n) == IntegerLiteral(n)

\* v is ((1 o1 2) o2 3); an operator the AST has a name for carries that name
LeftNested(v, o1, o2) ==
    /\ v.kind = "BinaryExpr" /\ Len(v.kids) = 2
    /\ v.kids[1].kind = "BinaryExpr"
    /\ v.kids[1].kids = <<Lit("1"), Lit("2")>>
    /\ v.kids[2] = Lit("3")
    /\ token_to_binary_op(o1) # "" => v.kids[1].text = token_to_binary_op(o1)
    /\ token_to_binary_op(o2) # "" => v.text = token_to_binary_op(o2)

\* v is (1 o1 (2 o2 3))
RightNested(v, o1, o2) ==
    /\ v.kind = "BinaryExpr" /\ Len(v.kids) = 2
    /\ v.kids[1] = Lit("1")
    /\ v.kids[2].kind = "BinaryExpr"
    /\ v.kids[2].kids = <<Lit("2"), Lit("3")>>
    /\ token_to_binary_op(o1) # "" => v.text = token_to_binary_op(o1)
    /\ token_to_binary_op(o2) # "" => v.kids[2].text = token_to_binary_op(o2)

\* C1: parse_expression on `1 o1 2 o2 3`, for any two operators of the precedence
\* table with precedences p1 and p2, succeeds and yields (1 o1 (2 o2 3)) when
\* p1 < p2, ((1 o1 2) o2 3) when p1 > p2, and for p1 = p2 the left-nested tree
\* on a left-associative level and the right-nested one on a right-associative
\* level.
PrattPrecedenceLaw ==
    \A o1 \in BinaryOpTokens, o2 \in BinaryOpTokens :
        FreshCall("parse_expression", PrattInput(o1, o2)) =>
            /\ parse_call.ok
            /\ IF get_precedence(o1) < get_precedence(o2)
                  \/ (get_precedence(o1) = get_precedence(o2) /\ is_right_associative(o1))
               THEN RightNested(parse_call.value, o1, o2)
               ELSE LeftNested(parse_call.value, o1, o2)

\* The declaration loop of parse_program is entered at P and its first
\* declaration fails to parse
FirstDeclarationFails(P) ==
    /\ ~is_eof(P)
    /\ current(P).type # "RightBrace"
    /\ ~parse_declaration(P).ok

\* C2: with enable_error_recovery, parse_program on a failing declaration
\* followed by the well-formed `fn g() {}` returns, at EOF, a Program that holds
\* the declaration of g.
RecoveryReachesLaterFn ==
    \A junk \in Junk :
        ( /\ FreshCall("parse_program", junk \o GoodFn \o <<eof_token>>)
          /\ parse_call.before.options_.enable_error_recovery
          /\ FirstDeclarationFails(parse_call.before) ) =>
            /\ ~parse_call.diverges
            /\ parse_call.ok
            /\ is_eof(parser)
            /\ \E i \in 1..Len(parse_call.value.kids) : parse_call.value.kids[i] = GoodFnDecl

\* `fn add(a: i32, b: i32) -> i32 { a + b }` as the lexer hands it over: i32 is
\* the keyword token KwI32
FnAddTokens == FnAddInput(Tok("KwI32"), <<IdTok("a"), Tok("Plus"), IdTok("b")>>)

\* d is a FunctionDecl named add with two typed parameters a and b, a return
\* type, and a body Block of exactly one statement
IsFnAdd(d) ==
    /\ d.kind = "FunctionDecl" /\ d.text = "add"
    /\ Len(d.kids[1].kids) = 2
    /\ \A i \in 1..2 :
          /\ d.kids[1].kids[i].kind = "Parameter"
          /\ d.kids[1].kids[i].text = <<"a", "b">>[i]
          /\ d.kids[1].kids[i].kids[1] # NoNode
    /\ d.kids[2] # NoNode
    /\ d.kids[3].kind = "Block"
    /\ Len(d.kids[3].kids) = 1

\* C7: parse_program on `fn add(a: i32, b: i32) -> i32 { a + b }` reports no
\* error and returns a Program of one FunctionDecl with the two typed parameters,
\* the return type and a body of exactly one expression statement.
FnAddParses ==
    FreshCall("parse_program", FnAddTokens) =>
        /\ parse_call.ok
        /\ parser.errors_ = <<>>
        /\ Len(parse_call.value.kids) = 1
        /\ IsFnAdd(parse_call.value.kids[1])

\* The tokens of e without the closing Eof
Body(tokens) == SubSeq(tokens, 1, Len(tokens) - 1)

\* `(e)` for the token stream of e
Parenthesized(tokens) ==
    <<Tok("LeftParen")>> \o Body(tokens) \o <<Tok("RightParen"), eof_token>>

\* C8: when parse_expression accepts e, parse_expression on `(e)` succeeds,
\* consumes the closing parenthesis and returns the AST of e.
ParenthesesKeepAst ==
    ( /\ FreshCall("parse_expression", parse_call.before.tokens_)
      /\ parse_call.ok
      /\ is_eof(parser) ) =>
        LET r == parse_expression(NewParser(Parenthesized(parse_call.before.tokens_),
                                            parse_call.before.options_))
        IN  /\ r.ok
            /\ r.value = parse_call.value
            /\ r.P.position_ = Len(parse_call.before.tokens_) + 1

\* The AST of a one-token argument
ArgNode(token) ==
    IF token.type = "Identifier" THEN Identifier(token.text)
    ELSE Node(token.type, token.text, <<>>)

\* C9: parse_expression on `f(a1, ..., an)`, n >= 0, yields the CallExpr with
\* callee f and arguments a1..an in source order.
CallParsesToCallExpr ==
    \A args \in SeqsUpTo(ArgTokens, MaxArgs) :
        FreshCall("parse_expression", CallInput(<<>>, args, FALSE)) =>
            /\ parse_call.ok
            /\ parse_call.value =
                  CallExpr(Identifier("f"), [i \in 1..Len(args) |-> ArgNode(args[i])])

\* C10: a comma right before the closing parenthesis makes the parse fail with
\* an error, in a parameter list (`fn f(a: T,) {}`) and in an argument list
\* (`f(a,)`).
TrailingCommaRejected ==
    /\ \A n \in 1..MaxArgs :
          FreshCall("parse_program", ParamInput(n, TRUE)) =>
              (~parse_call.ok \/ parser.errors_ # <<>>)
    /\ \A prefix \in CallPrefixes, args \in SeqsUpTo(ArgTokens, MaxArgs) \ {<<>>} :
          FreshCall("parse_expression", CallInput(prefix, args, TRUE)) =>
              ~parse_call.ok

\* The parser as the last public call left it (before any clear_errors)
AfterCall ==
    CASE parse_call.method = "parse_program" -> parse_program(parse_call.before).P
      [] parse_call.method = "parse_expression" -> parse_expression(parse_call.before).P
      [] parse_call.method = "parse_statement" -> parse_statement(parse_call.before).P
      [] OTHER -> parse_call.before

\* errors() of P contains e
HasError(P, e) == \E i \in 1..Len(P.errors_) : P.errors_[i] = e

\* C11: when parse_program, parse_statement or parse_expression returns an
\* error, of any ParseError kind and with recovery enabled or not, the parser
\* has recorded it: has_errors() is true and errors() contains that error.
FailureIsRecorded ==
    ( /\ parse_call.method \in {"parse_program", "parse_expression", "parse_statement"}
      /\ ~parse_call.ok
      /\ ~parse_call.diverges ) =>
        /\ AfterCall.errors_ # <<>>
        /\ HasError(AfterCall, parse_call.error)

\* C26: parse_statement dispatches on the current token: `{` parses a Block,
\* `let` parses a VarDecl, and any other token is parsed as an expression
\* statement, so parse_statement succeeds whenever a well-formed expression
\* (here a literal or an identifier) starts at the current token
StatementDispatch ==
    (parse_call.method = "parse_statement" /\ ~parse_call.diverges) =>
        LET token == current(parse_call.before)
        IN  /\ (token.type = "LeftBrace" /\ parse_call.ok) => parse_call.value.kind = "Block"
            /\ (token.type = "KwLet" /\ parse_call.ok) => parse_call.value.kind = "VarDecl"
            /\ token.type \in {"IntegerLiteral", "Identifier"} => parse_call.ok

\* The number of `(` in a row at the current token of P: parse_primary enters
\* parse_expr once more for each of them
RECURSIVE OpenParens(_)
OpenParens(P) ==
    IF current(P).type = "LeftParen" THEN 1 + OpenParens(advance(P)) ELSE 0

\* C27: the recursion-depth counter is incremented on every entry to parse_expr
\* and never exceeds max_recursion_depth; an entry that would exceed it makes
\* the parse fail with NestedTooDeep, and once the outermost parse_expr has
\* returned, by success or by any failure, the counter is back at the value it
\* had before the call
RecursionDepthGuard ==
    LET before == parse_call.before
        room == before.options_.max_recursion_depth - before.recursion_depth_
    IN  /\ parser.recursion_depth_ <= parser.options_.max_recursion_depth
        /\ (parse_call.method # "none" /\ ~parse_call.diverges) =>
               parser.recursion_depth_ = before.recursion_depth_
        /\ parse_call.method = "parse_expression" =>
               /\ OpenParens(before) >= room =>
                      ~parse_call.ok /\ parse_call.error = "NestedTooDeep"
               /\ parse_call.error = "NestedTooDeep" =>
                      Len(before.tokens_) - 1 - before.position_ >= room

\* `(((` with max_recursion_depth = 3: the fourth entry is refused and the three
\* entries made are undone
RecursionDepthGuardWitness ==
    /\ parse_call.method = "parse_expression"
    /\ parse_call.before.tokens_ =
           <<Tok("LeftParen"), Tok("LeftParen"), Tok("LeftParen"), eof_token>>
    /\ parse_call.before.position_ = 0
    /\ parse_call.before.options_.max_recursion_depth = SmallRecursionDepth
    /\ parse_call.error = "NestedTooDeep"
    /\ parser.recursion_depth_ = 0

\* C28: on every finite token stream, with error recovery enabled or disabled,
\* parse_program terminates: every iteration of the declaration loop and of the
\* block statement loop consumes a token or leaves the loop, also when the token
\* at which a parse failed is itself a synchronization point
ParseProgramTerminates ==
    parse_call.method = "parse_program" => ~parse_call.diverges

\* Tokens that are no binary operator of the precedence table and start no postfix
NonOperatorTokens == {"RightParen", "Comma", "RightBrace", "Semicolon", "KwLet", "KwFn"}

\* C29: parse_expr consumes only tokens that belong to the expression: at every
\* min_precedence, the default 0 included, a current token that is not a binary
\* operator of the precedence table ends the operator loop and is still the
\* current token when parse_expr returns (here: after a literal, the primary)
OperatorLoopStopsAtNonOperator ==
    LET before == parse_call.before
    IN  ( /\ parse_call.method = "parse_expression"
          /\ current(before).type = "IntegerLiteral"
          /\ current(advance(before)).type \in NonOperatorTokens ) =>
            /\ parse_call.ok
            /\ parser.position_ = before.position_ + 1

(***************************************************************************)
(*                   PROPERTIES: the diagnostic engine                     *)
(***************************************************************************)

\* The stored diagnostics of E hold a Fatal one
FatalSeen(E) == \E i \in 1..Len(E.diagnostics_) : E.diagnostics_[i].level = "Fatal"

CounterLaw ==
    /\ engine.error_count_ = accepted["Fatal"] + accepted["Error"]
    /\ engine.warning_count_ = accepted["Warning"]
    /\ engine.note_count_ = accepted["Note"]

\* An Error and then a Fatal diagnostic were accepted
CounterLawWitness ==
    /\ accepted["Error"] = 1
    /\ accepted["Fatal"] = 1
    /\ engine.error_count_ = 2

\* C12: fatal(code, message, location) on an engine that is not stopped stores
\* the Fatal diagnostic (the stored count grows by one), increments the errors
\* counter by one, sets fatal_seen, and returns false.
FatalIsStored ==
    (report_call.method = "fatal" /\ ~should_stop_compilation(report_call.before)) =>
        /\ engine.diagnostics_ =
              Append(report_call.before.diagnostics_, report_call.diagnostic)
        /\ report_call.diagnostic.level = "Fatal"
        /\ engine.error_count_ = report_call.before.error_count_ + 1
        /\ engine.fatal_encountered_
        /\ report_call.ret = FALSE

\* The last call was a report that stored its diagnostic
ReportAccepted ==
    /\ report_call.method = "report"
    /\ engine.diagnostics_ =
          Append(report_call.before.diagnostics_, report_call.diagnostic)

ReturnsTrueIffAccepted ==
    (report_call.method = "report" /\ report_call.diagnostic.level # "Fatal") =>
        /\ report_call.ret = ReportAccepted
        /\ ( /\ report_call.diagnostic.level = "Error"
             /\ ~report_call.before.fatal_encountered_
             /\ report_call.before.max_errors_ > 0
             /\ report_call.before.error_count_ < report_call.before.max_errors_ ) =>
               report_call.ret = TRUE
        /\ ~ReportAccepted => engine.error_count_ = report_call.before.error_count_

\* The position of diagnostic d in the sequence s of distinct diagnostics
PositionIn(s, d) == CHOOSE i \in 1..Len(s) : s[i] = d

\* C16: sort_by_severity reorders the stored diagnostics so that every Fatal
\* precedes every Error, every Error every Warning and every Warning every
\* Note, and diagnostics of equal severity keep the relative order they had
\* before the sort
SortBySeverityStable ==
    report_call.method = "sort_by_severity" =>
        LET old == report_call.before.diagnostics_
            new == engine.diagnostics_
        IN  /\ Len(new) = Len(old)
            /\ \A i \in 1..Len(old) : \E j \in 1..Len(new) : new[j] = old[i]
            /\ \A i, j \in 1..Len(new) :
                  level_priority(new[i].level) > level_priority(new[j].level) => i < j
            /\ \A i, j \in 1..Len(old) :
                  (i < j /\ old[i].level = old[j].level) =>
                      PositionIn(new, old[i]) < PositionIn(new, old[j])

\* C17: when several threads report Error diagnostics to one engine at the same
\* time with no error limit, no report is lost under any interleaving: after
\* all threads have finished, the errors counter equals the number of Error
\* reports made and each of them is in the stored diagnostics
NoReportLost ==
    AllThreadsJoined =>
        /\ engine.error_count_ = NumThreads * ReportsPerThread
        /\ \A t \in ThreadIds : \A j \in 1..ReportsPerThread :
              \E i \in 1..Len(engine.diagnostics_) :
                  engine.diagnostics_[i] = ThreadDiagnostic(t, j)

\* Every builder of the diagnostic has been destroyed
AllDestroyed == \A i \in 1..Len(builders) : ~builders[i].alive

\* C15: over the whole lifetime of a DiagnosticBuilder (emit() called and the
\* builder then destroyed, the builder dropped without emit(), or the builder
\* moved into another builder) its diagnostic is submitted to the engine
\* exactly once
SubmittedExactlyOnce ==
    AllDestroyed => Len(submissions) = 1

\* C30: with max_errors = N > 0 and several threads calling report concurrently
\* on one engine, under every interleaving at most N Error or Fatal diagnostics
\* are accepted, so the errors counter never exceeds N
ErrorLimitHoldsUnderThreads ==
    (threads # NoThreads /\ engine.max_errors_ > 0) =>
        engine.error_count_ <= engine.max_errors_

(***************************************************************************)
(*                        PROPERTIES: the arena                            *)
(***************************************************************************)

\* a is one of 1, 2, 4, ...
IsPowerOfTwo(a) == \E k \in 0..(PtrBits - 1) : a = Pow2(k)

\* C20: after any sequence of allocate, emplace and reset calls,
\* bytes_used <= block_count x block_size
BytesUsedBound ==
    arena.bytes_used_ <= arena.block_count_ * BlockSize

\* C19: no allocation is partially completed: whenever allocate, allocate<T> or
\* emplace fails for any reason, bytes_used, block_count, total_allocated and
\* the bump position are the same as before the call
FailureLeavesArenaUnchanged ==
    ( /\ arena_call.method \in {"allocate", "allocate_T", "emplace"}
      /\ ~arena_call.ok ) =>
            /\ arena.bytes_used_ = arena_call.before.bytes_used_
            /\ arena.block_count_ = arena_call.before.block_count_
            /\ arena.total_allocated_ = arena_call.before.total_allocated_
            /\ arena.current_pos_ = arena_call.before.current_pos_

\* C18: allocate(size, alignment) fails with std::invalid_argument and returns
\* no pointer whenever size = 0, size > block size, or alignment is not a power
\* of two, alignment 0 included
InvalidRequestRejected ==
    ( /\ arena_call.method = "allocate"
      /\ \/ arena_call.size = 0
         \/ arena_call.size > BlockSize
         \/ ~IsPowerOfTwo(arena_call.alignment) ) =>
            /\ ~arena_call.ok
            /\ arena_call.error = "invalid_argument"

\* C5: after reset(), bytes_used is 0, block_count is at most 1, and
\* allocate<T>(1) of any arena-allocatable T succeeds with a pointer the arena
\* owns: out of the kept first block whatever the system allocator does, and,
\* when the arena never had a block, out of the block the system allocator
\* provides.
ResetLaw ==
    arena_call.method = "reset" =>
        /\ arena.bytes_used_ = 0
        /\ arena.block_count_ <= 1
        /\ \A T \in Types, fresh \in Fresh(arena) :
              (arena.block_count_ = 1 \/ fresh[1] # 0) =>
                  LET r == allocate_T(arena, T, 1, fresh)
                  IN  r.ok /\ owns(r.A, r.ptr)

\* reset() was called on an arena of several blocks with bytes in use
ResetLawWitness ==
    /\ arena_call.method = "reset"
    /\ arena_call.before.block_count_ >= 2
    /\ arena_call.before.bytes_used_ > 0
    /\ arena.block_count_ = 1

\* p is a multiple of a
IsMultiple(p, a) == \E k \in 0..p : p = k * a

\* C6: the pointer a successful allocate, allocate<T> or emplace returns is owned
\* by the arena, its region of the requested size lies inside one block, and it
\* is a multiple of the requested alignment.
ArenaSafety ==
    (arena_call.method \in {"allocate", "allocate_T", "emplace"} /\ arena_call.ok) =>
        /\ owns(arena, arena_call.ptr)
        /\ \E i \in 1..Len(arena.blocks) :
              /\ arena_call.ptr >= arena.blocks[i]
              /\ arena_call.ptr + arena_call.size <= arena.blocks[i] + BlockSize
        /\ IsMultiple(arena_call.ptr, arena_call.alignment)

(***************************************************************************)
(*                    PROPERTIES: the source manager                       *)
(***************************************************************************)

\* The last call was a load that registered a new file
NewFileRegistered ==
    /\ manager_call.method \in {"load_file", "load_from_string"}
    /\ Registers(manager_call.before,
                 [ok |-> manager_call.ok, value |-> manager_call.value, M |-> manager])

\* C21: within one SourceManager, over any sequence of load_file,
\* load_from_string and clear calls, every FileID handed out for a newly
\* registered file differs from the invalid ID 0 and is strictly greater than
\* every FileID that manager handed out before
FileIdsIncrease ==
    NewFileRegistered =>
        /\ manager_call.value # 0
        /\ manager_call.value > manager_call.issued

\* The size of the last load is within max_file_size and max_total_size
SizeWithinLimits ==
    /\ manager_call.size <= MaxFileSize
    /\ manager_call.before.total_bytes_loaded_ + manager_call.size <= MaxTotalSize

\* C22: a load (load_file or load_from_string) refused because the manager
\* already holds max_files files fails with TooManyFiles; FileTooLarge is
\* returned only when the file exceeds max_file_size or would push the total
\* past max_total_size
LimitErrors ==
    ( /\ manager_call.method \in {"load_file", "load_from_string"}
      /\ ~manager_call.ok ) =>
        /\ ( /\ manager_call.error \in {"FileTooLarge", "TooManyFiles"}
             /\ SizeWithinLimits
             /\ manager_call.before.total_files_loaded_ >= MaxFiles ) =>
                manager_call.error = "TooManyFiles"
        /\ manager_call.error = "FileTooLarge" => ~SizeWithinLimits

(***************************************************************************)
(*                     PROPERTIES: the source file                         *)
(***************************************************************************)

\* C23: for every loaded file, with any mix of LF, CRLF and bare-CR line
\* terminators, and every offset o with 0 <= o <= |bytes|,
\* offset_to_line_column(o) succeeds with some (line, column) and
\* line_column_to_offset(line, column) succeeds and returns o
SourceRoundTrip ==
    /\ \A o \in 0..Len(file.content_) : offset_to_line_column(file, o).ok
    /\ file_call.method = "round_trip" => file_call.result = Offset(file_call.offset)

\* A round trip from the '\n' of a CRLF that follows a bare CR
SourceRoundTripWitness ==
    /\ file.content_ = <<LetterByte, CR, CR, LF>>
    /\ file_call.method = "round_trip"
    /\ file_call.offset = 3
    /\ file_call.position = LineColumn(2, 2)
    /\ file_call.result = Offset(3)

\* b is one of lo..hi
InRange(b, lo, hi) == lo <= b /\ b <= hi

\* Well-formed UTF-8 byte sequences (Unicode Standard, table 3-7): the
\* encodings of U+0000..U+D7FF and U+E000..U+10FFFF in their shortest form
RECURSIVE WellFormedUtf8(_)
WellFormedUtf8(s) ==
    LET n == Len(s)
        rest(k) == WellFormedUtf8(SubSeq(s, k + 1, n))
    IN  IF n = 0 THEN TRUE
        ELSE IF s[1] < 128 THEN rest(1)
        ELSE IF InRange(s[1], 194, 223)
        THEN n >= 2 /\ InRange(s[2], 128, 191) /\ rest(2)
        ELSE IF InRange(s[1], 224, 239)
        THEN /\ n >= 3
             /\ InRange(s[2], IF s[1] = 224 THEN 160 ELSE 128, IF s[1] = 237 THEN 159 ELSE 191)
             /\ InRange(s[3], 128, 191)
             /\ rest(3)
        ELSE IF InRange(s[1], 240, 244)
        THEN /\ n >= 4
             /\ InRange(s[2], IF s[1] = 240 THEN 144 ELSE 128, IF s[1] = 244 THEN 143 ELSE 191)
             /\ InRange(s[3], 128, 191)
             /\ InRange(s[4], 128, 191)
             /\ rest(4)
        ELSE FALSE

\* C24: validate_utf8 returns true for exactly the byte sequences that are
\* well-formed standard UTF-8: every overlong encoding, every unpaired
\* continuation byte and every truncated multi-byte sequence makes it return
\* false, and every well-formed sequence makes it return true
ValidatesExactlyUtf8 ==
    file_call.method = "validate_utf8" =>
        file_call.valid = WellFormedUtf8(file.content_)

(***************************************************************************)
(*                        PROPERTIES: the lexer                            *)
(***************************************************************************)

\* The '\n' characters of input before offset o
NewlinesBefore(input, o) == {k \in 1..o : input[k] = "\n"}

\* The 1-based line of offset o
LineAt(input, o) == 1 + Cardinality(NewlinesBefore(input, o))

\* The 1-based column of offset o: its distance from the start of its line
ColumnAt(input, o) ==
    LET line_start == IF NewlinesBefore(input, o) = {} THEN 0
                      ELSE CHOOSE k \in NewlinesBefore(input, o) :
                              \A j \in NewlinesBefore(input, o) : j <= k
    IN  o - line_start + 1

\* C25: every token of a successful tokenization carries the location of its
\* first byte: the token's line, column and byte_offset are all those of the
\* position where the token's text begins
TokenLocationIsStart ==
    lex_call.method = "tokenize" =>
        \A i \in 1..Len(lex_call.tokens) :
            LET token == lex_call.tokens[i]
            IN  /\ token.location.line = LineAt(lexer.input_, token.start)
                /\ token.location.column = ColumnAt(lexer.input_, token.start)
                /\ token.location.byte_offset = token.start

=============================================================================
